---- MODULE Spec2Model ----
(***************************************************************************)
(* Task-approval / retry-queue workflow of the Projectize Slack bot.       *)
(*                                                                         *)
(* Two deployments share the queue-entry data model:                       *)
(*   app = "supabase" : app.js + handlers/{mention,quote,batch}.js on the  *)
(*                      database-backed store (SupabaseService), with the  *)
(*                      background retry sweep (processRetryQueue);        *)
(*   app = "local"    : app-full.js (mention, approve button, reject       *)
(*                      button) and the enhanced app (the same handlers    *)
(*                      plus the edit button and edit replies) on the      *)
(*                      file-backed store (LocalStorageService); no retry  *)
(*                      sweep runs there.                                  *)
(* Every await of a handler is a separate step, so handlers interleave.    *)
(***************************************************************************)
EXTENDS Integers, Sequences, FiniteSets, TLC

VARIABLES
  app,        \* which deployment runs: "supabase" or "local"
  now,        \* last reading of the wall clock (Date.now())
  queue,      \* the task_queue table / tasks.json: a sequence of entries
  history,    \* the task_history table (supabase only; the file store only logs):
              \* the set of records written
  created,    \* destination side: per queue position and task title, creates that succeeded
  approved,   \* per queue position: an approve action has been handled for it
  hs,         \* the in-flight button/reaction/reply handlers
  sweep,      \* the background retry processor
  ret,        \* the last value returned by a direct store call
  lost,       \* per queue position: the stored statuses seen at the moments the process
              \* stopped while creates that had succeeded for it awaited their status update
  io,         \* per caller of the file store: the array it read and changed in memory,
              \* not yet written back
  rl,         \* the sync client's request interceptor: the time, lastRequestTime, and
              \* where each request is (before its timer, in its wait, sent)
  cm,         \* the createMultipleTasks call in flight: its loop position and where
              \* each task's create call is
  ev          \* the last mention or quote handled: its key, what extraction returned,
              \* how often extraction was called, whether the entry was stored, the reply

vars == <<app, now, queue, history, created, approved, hs, sweep, ret, lost, io, ev, rl, cm>>

----------------------------------------------------------------------------
(* Bounds of the model *)

MaxEntries == 2     \* entries the queue may hold
MaxFlow == 1        \* entries the queue may hold where handlers and the sweep run
MaxTasks == 2       \* tasks in one extracted batch
NumHandlers == 2    \* handlers in flight at once
MaxTs == 2          \* distinct message timestamps
MaxDup == 2         \* created[..] counts creates up to this many
MaxLimit == 2       \* largest limit passed to a direct getPendingTasks call
MaxCh == 1          \* distinct channels
MaxCreates == 11    \* tasks passed to one createMultipleTasks call
MaxWorkspaces == 3  \* workspaces findBestMatch chooses from
MaxProjects == 2    \* projects of the chosen workspace
MaxRaw == 2         \* objects in one parsed extraction reply
MaxBatch == 11      \* tasks in one batch passed to validateTaskBatch
MaxRequests == 3    \* requests of one batch in flight at once
MaxClock == 3500    \* the clock stops here (ms)
MaxCmTasks == 12    \* tasks given to the createMultipleTasks call that is followed step by step

(* Program constants *)

BatchSize == 10     \* createMultipleTasks: const batchSize = 10
MaxBatchTasks == 10 \* validateTaskBatch: tasks.length > 10
MinTitle == 3       \* validateTask: task.title.trim().length < 3
RateLimitDelay == 1000  \* this.rateLimitDelay = 1000 (ms)
Stagger == 100      \* setTimeout(resolve, index * 100) (ms)
RetryLimit == 3     \* retry_count < 3 / retry_count >= 3
SweepLimit == 5     \* getPendingTasks(5)
Undefined == -1     \* a field that is undefined (JS) / NULL (SQL)

Handlers == 1..NumHandlers
Positions == 1..MaxEntries
TsSet == 1..MaxTs
ChSet == 1..MaxCh
Titles == 1..MaxTasks

Statuses == {"pending", "processing", "editing", "completed", "failed"}

----------------------------------------------------------------------------
(* Data *)

\* A TaskDraft as validateTask leaves it: assignee 0 is 'infer_from_context',
\* due 0 is null.
Task(n) == [title |-> n, assignee |-> 0, due |-> 0]

\* The non-empty batches extractTasks can return.
ExtractedBatches == { [i \in 1..n |-> Task(i)] : n \in 1..MaxTasks }

\* suggestWorkspaceAndProject: one suggestion per task, in task order.
Suggest(tasks) == [i \in 1..Len(tasks) |-> [task |-> tasks[i], needsUpdate |-> FALSE]]

\* what a handler keeps of the entry it read: the fields it uses later
Snap(e) == [id |-> e.id, ts |-> e.ts, ch |-> e.ch, tasks |-> e.tasks, sugg |-> e.sugg,
            retry |-> e.retry]

NoSnap == [id |-> 0, ts |-> 0, ch |-> 0, tasks |-> <<>>, sugg |-> <<>>, retry |-> Undefined]

\* (x || 0)
OrZero(x) == IF x = Undefined THEN 0 ELSE x

\* { ...e, ...upd }
Merge(e, upd) == [f \in DOMAIN e |-> IF f \in DOMAIN upd THEN upd[f] ELSE e[f]]

RECURSIVE SelectSeq2(_, _, _)
\* the indices i of q, in order, with keep[i]
SelectSeq2(q, keep, i) ==
  IF i > Len(q) THEN <<>>
  ELSE (IF keep[i] THEN <<i>> ELSE <<>>) \o SelectSeq2(q, keep, i + 1)

Take(s, n) == [i \in 1..(IF n < Len(s) THEN n ELSE Len(s)) |-> s[i]]

----------------------------------------------------------------------------
(* Queue store: LocalStorageService *)

\* addToTaskQueue: id and created_at from the clock, status forced to pending;
\* retry_count and last_attempt stay undefined.
LocalAdd(q, data, t) ==
  Append(q, [id |-> t, ts |-> data.ts, ch |-> data.ch, tasks |-> data.tasks,
             sugg |-> data.sugg, status |-> "pending", retry |-> Undefined,
             err |-> "", created |-> t, last |-> Undefined])

\* tasks.findIndex(t => t.id === id), 0 for -1
FindIndex(q, id) ==
  IF \E i \in 1..Len(q) : q[i].id = id
  THEN CHOOSE i \in 1..Len(q) : q[i].id = id /\ \A j \in 1..(i - 1) : q[j].id # id
  ELSE 0

\* updateTaskQueue if it spread the updates before the stored entry,
\* { ...updates, ...tasks[index], last_attempt }
LocalUpdateReversed(q, id, upd, t) ==
  LET i == FindIndex(q, id) IN
  IF i = 0 THEN [ok |-> FALSE, q |-> q, pos |-> 0]
  ELSE [ok |-> TRUE, pos |-> i,
        q |-> [q EXCEPT ![i] = Merge(q[i], [last |-> t])]]

\* updateTaskQueue: merge into the first entry with that id, stamp last_attempt;
\* throws when no entry has the id.
LocalUpdate(q, id, upd, t) ==
  LET i == FindIndex(q, id) IN
  IF i = 0 THEN [ok |-> FALSE, q |-> q, pos |-> 0]
  ELSE [ok |-> TRUE, pos |-> i,
        q |-> [q EXCEPT ![i] = Merge(Merge(q[i], upd), [last |-> t])]]

\* getPendingTasks if it filtered on the status alone
LocalGetPendingTasksNoRetryFilter(q, limit) ==
  Take(SelectSeq2(q, [i \in 1..Len(q) |-> q[i].status = "pending"], 1), limit)

\* getPendingTasks: filter in file order, then slice(0, limit). Returns positions.
LocalGetPendingTasks(q, limit) ==
  Take(SelectSeq2(q, [i \in 1..Len(q) |->
         q[i].status = "pending" /\ OrZero(q[i].retry) < RetryLimit], 1), limit)

\* getTaskByMessage: tasks.find(...), the first match in file order; 0 for undefined
LocalGetTaskByMessage(q, ts, ch) ==
  IF \E i \in 1..Len(q) : q[i].ts = ts /\ q[i].ch = ch
  THEN CHOOSE i \in 1..Len(q) :
         /\ q[i].ts = ts /\ q[i].ch = ch
         /\ \A j \in 1..(i - 1) : ~(q[j].ts = ts /\ q[j].ch = ch)
  ELSE 0

----------------------------------------------------------------------------
(* Queue store: SupabaseService on the task_queue table *)

\* insert: id from gen_random_uuid() (fresh), retry_count DEFAULT 0,
\* created_at DEFAULT NOW(), last_attempt NULL.
SupabaseAdd(q, data, t) ==
  Append(q, [id |-> Len(q) + 1, ts |-> data.ts, ch |-> data.ch, tasks |-> data.tasks,
             sugg |-> <<>>, status |-> data.status, retry |-> 0,
             err |-> "", created |-> t, last |-> Undefined])

\* the statuses the valid_status CHECK of task_queue admits
ValidStatuses == {"pending", "processing", "completed", "failed"}

\* update ... eq('id', id).select().single(): an error when the new row breaks
\* the CHECK, or unless exactly one row matched.
SupabaseUpdate(q, id, upd, t) ==
  LET rows == {i \in 1..Len(q) : q[i].id = id} IN
  IF Cardinality(rows) # 1 \/ ("status" \in DOMAIN upd /\ upd.status \notin ValidStatuses)
  THEN [ok |-> FALSE, q |-> q, pos |-> 0]
  ELSE LET i == CHOOSE r \in rows : TRUE IN
       [ok |-> TRUE, pos |-> i,
        q |-> [q EXCEPT ![i] = Merge(Merge(q[i], upd), [last |-> t])]]

RECURSIVE InsertByCreated(_, _, _)
\* insert position i into the list of positions s, kept ascending by created_at
InsertByCreated(q, s, i) ==
  IF s = <<>> THEN <<i>>
  ELSE IF q[i].created < q[Head(s)].created THEN <<i>> \o s
  ELSE <<Head(s)>> \o InsertByCreated(q, Tail(s), i)

RECURSIVE OrderByCreated(_, _)
\* order('created_at', { ascending: true }) of the positions s
OrderByCreated(q, s) ==
  IF s = <<>> THEN <<>>
  ELSE InsertByCreated(q, OrderByCreated(q, Tail(s)), Head(s))

\* getPendingTasks: eq status pending, lt retry_count 3 (NULL never matches),
\* order by created_at ascending, limit. Returns positions.
SupabaseGetPendingTasks(q, limit) ==
  Take(OrderByCreated(q, SelectSeq2(q, [i \in 1..Len(q) |->
         q[i].status = "pending" /\ q[i].retry # Undefined /\ q[i].retry < RetryLimit], 1)),
       limit)

\* handleBatch's lookup: eq ts, eq channel, eq status pending, .single():
\* the row when exactly one matches, else an error (0).
SelectPendingSingle(q, ts, ch) ==
  LET rows == {i \in 1..Len(q) : q[i].ts = ts /\ q[i].ch = ch /\ q[i].status = "pending"} IN
  IF Cardinality(rows) = 1 THEN CHOOSE r \in rows : TRUE ELSE 0

----------------------------------------------------------------------------
(* The store the running deployment uses *)

UpdateTaskQueue(q, id, upd, t) ==
  IF app = "supabase" THEN SupabaseUpdate(q, id, upd, t) ELSE LocalUpdate(q, id, upd, t)

----------------------------------------------------------------------------
(* Handlers in flight *)

Idle == [pc |-> "idle", kind |-> "none", pos |-> 0, snap |-> NoSnap, res |-> <<>>, ws |-> FALSE,
         cmds |-> <<>>]

SweepIdle == [pc |-> "idle", list |-> <<>>, res |-> <<>>]

\* a caller of the file store that is not between its readFile and its writeFile
NoIo == [pc |-> "idle", copy |-> <<>>]

\* no mention or quote has been handled
NoEv == [ts |-> 0, ch |-> 0, out |-> "none", tasks |-> <<>>, calls |-> 0,
         stored |-> FALSE, reply |-> "none"]

\* no direct store call has returned
NoRet == [op |-> "none", limit |-> 0, arg |-> [limit |-> 0], val |-> <<>>]

\* the requests one createMultipleTasks batch can have in flight
Requests == 1..MaxRequests

\* a request not made
NoRequest == [pc |-> "none", at |-> 0]

\* the tasks one createMultipleTasks call can be given
CmTasks == 1..MaxCmTasks

\* no createMultipleTasks call made: per task where its create call is (st)
\* and the number of the batch it was put in (batch, 0 for none)
NoCm == [pc |-> "idle", n |-> 0, i |-> 0, b |-> 0,
         st |-> [k \in CmTasks |-> "none"], batch |-> [k \in CmTasks |-> 0],
         puts |-> [k \in CmTasks |-> 0]]

\* the interceptor before any request: lastRequestTime = 0, and a clock (in
\* ms) that is later than that by the delay at least
NoRl == [clock |-> RateLimitDelay, lastRequestTime |-> 0,
         req |-> [k \in Requests |-> NoRequest]]

\* the handler leaves: h is free again
Finish(h) == [hs EXCEPT ![h] = Idle]

Goto(h, pc) == [hs EXCEPT ![h].pc = pc]

\* one more successful create of task title n of the entry at position p
Bump(c, p, n) == [c EXCEPT ![p][n] = IF @ < MaxDup THEN @ + 1 ELSE @]

RECURSIVE RecordCreates(_, _, _, _, _)
\* the destination after the create calls of tasks i.. : res[i] says whether call i succeeded
RecordCreates(c, p, tasks, res, i) ==
  IF i > Len(tasks) THEN c
  ELSE RecordCreates(IF res[i] THEN Bump(c, p, tasks[i].title) ELSE c, p, tasks, res, i + 1)

\* number of TRUE in a sequence of booleans
CountTrue(res) == Cardinality({i \in 1..Len(res) : res[i]})

\* createMultipleTasks's verdict: success iff no call failed
AllSucceeded(res) == CountTrue(res) = Len(res)

----------------------------------------------------------------------------
(* handlers/mention.js, handlers/quote.js (supabase deployment) *)

\* storeTaskPreview: the insert, its failure swallowed by the try/catch
StoreTaskPreview(ts, ch, tasks, ok) ==
  /\ now' = IF ok THEN now + 1 ELSE now
  /\ queue' = IF ok
              THEN SupabaseAdd(queue, [ts |-> ts, ch |-> ch, tasks |-> tasks,
                                        status |-> "pending"], now')
              ELSE queue

\* what the handler did with a mention or quote whose extraction returned tasks:
\* one extraction call, the insert's error (if any) logged inside
\* storeTaskPreview, and the preview posted in either case
Previewed(ts, ch, tasks, ok) ==
  [ts |-> ts, ch |-> ch, out |-> "tasks", tasks |-> tasks, calls |-> 1,
   stored |-> ok, reply |-> "preview"]

\* handleMention with a successful extraction of at least one task
HandleMention(ts, ch, tasks) ==
  /\ app = "supabase"
  /\ Len(queue) < MaxEntries
  /\ ts <= Len(queue) + 1
  /\ \E ok \in BOOLEAN :
       /\ StoreTaskPreview(ts, ch, tasks, ok)
       /\ ev' = Previewed(ts, ch, tasks, ok)
  /\ UNCHANGED <<app, history, created, approved, hs, sweep, ret, lost, io, rl, cm>>

\* handleQuote with a successful extraction of at least one task
HandleQuote(ts, ch, tasks) ==
  /\ app = "supabase"
  /\ Len(queue) < MaxEntries
  /\ ts <= Len(queue) + 1
  /\ \E ok \in BOOLEAN :
       /\ StoreTaskPreview(ts, ch, tasks, ok)
       /\ ev' = Previewed(ts, ch, tasks, ok)
  /\ UNCHANGED <<app, history, created, approved, hs, sweep, ret, lost, io, rl, cm>>

----------------------------------------------------------------------------
(* handlers/batch.js: handleBatch *)

\* handleBatch up to the dispatch: the lookup found exactly one pending row
HandleBatch(h, action, ts, ch) ==
  /\ app = "supabase"
  /\ hs[h].pc = "idle"
  /\ \A g \in 1..(h - 1) : hs[g].pc # "idle"
  /\ LET p == SelectPendingSingle(queue, ts, ch) IN
       /\ p # 0
       /\ hs' = [hs EXCEPT ![h] = [Idle EXCEPT !.pc = IF action = "approve" THEN "mark" ELSE "reject",
                                                !.kind = action, !.pos = p, !.snap = Snap(queue[p])]]
       /\ approved' = IF action = "approve" THEN [approved EXCEPT ![p] = TRUE] ELSE approved
  /\ UNCHANGED <<app, now, queue, history, created, sweep, ret, lost, io, ev, rl, cm>>

\* handleTaskRejection
HandleTaskRejection(h) ==
  /\ app = "supabase"
  /\ hs[h].pc = "reject"
  /\ \E ok \in BOOLEAN :
       queue' = IF ok
                THEN UpdateTaskQueue(queue, hs[h].snap.id,
                       [status |-> "failed", err |-> "Rejected by user"], now).q
                ELSE queue
  /\ hs' = Finish(h)
  /\ UNCHANGED <<app, now, history, created, approved, sweep, ret, lost, io, ev, rl, cm>>

\* handleTaskApproval: mark as processing, post the "creating" message, read the
\* channel mapping; any of them throwing leads to the catch block
ApprovalMark(h) ==
  /\ app = "supabase"
  /\ hs[h].pc = "mark"
  /\ \E ok \in BOOLEAN, chat \in BOOLEAN :
       LET u == UpdateTaskQueue(queue, hs[h].snap.id, [status |-> "processing"], now) IN
       /\ queue' = IF ok THEN u.q ELSE queue
       /\ hs' = Goto(h, IF ok /\ u.ok /\ chat THEN "create" ELSE "catch")
  /\ UNCHANGED <<app, now, history, created, approved, sweep, ret, lost, io, ev, rl, cm>>

\* handleTaskApproval: createMultipleTasks on the tasks read by handleBatch
ApprovalCreate(h) ==
  /\ app = "supabase"
  /\ hs[h].pc = "create"
  /\ \E res \in [1..Len(hs[h].snap.tasks) -> BOOLEAN] :
       /\ created' = RecordCreates(created, hs[h].pos, hs[h].snap.tasks, res, 1)
       /\ hs' = [hs EXCEPT ![h].pc = "write", ![h].res = res]
  /\ UNCHANGED <<app, now, queue, history, approved, sweep, ret, lost, io, ev, rl, cm>>

\* handleTaskApproval: the status update after the sync
ApprovalWrite(h) ==
  /\ app = "supabase"
  /\ hs[h].pc = "write"
  /\ \E ok \in BOOLEAN, chat \in BOOLEAN :
       IF AllSucceeded(hs[h].res)
       THEN LET u == UpdateTaskQueue(queue, hs[h].snap.id, [status |-> "completed"], now) IN
            /\ queue' = IF ok THEN u.q ELSE queue
            /\ hs' = Goto(h, IF ok /\ u.ok THEN "history" ELSE "catch")
       ELSE LET u == UpdateTaskQueue(queue, hs[h].snap.id,
                       [status |-> "failed", err |-> "Motion API error",
                        retry |-> OrZero(hs[h].snap.retry) + 1], now) IN
            /\ queue' = IF ok THEN u.q ELSE queue
            /\ hs' = IF ok /\ u.ok /\ chat THEN Finish(h) ELSE Goto(h, "catch")
  /\ UNCHANGED <<app, now, history, created, approved, sweep, ret, lost, io, ev, rl, cm>>

\* handleTaskApproval: addTaskHistory, then the success message
ApprovalHistory(h) ==
  /\ app = "supabase"
  /\ hs[h].pc = "history"
  /\ \E ok \in BOOLEAN, chat \in BOOLEAN :
       /\ history' = IF ok
                     THEN history \cup {[pos |-> hs[h].pos, ts |-> hs[h].snap.ts,
                                          ch |-> hs[h].snap.ch, tasks |-> hs[h].snap.tasks,
                                          ids |-> {i \in 1..Len(hs[h].res) : hs[h].res[i]},
                                          success |-> TRUE]}
                     ELSE history
       /\ hs' = IF ok /\ chat THEN Finish(h) ELSE Goto(h, "catch")
  /\ UNCHANGED <<app, now, queue, created, approved, sweep, ret, lost, io, ev, rl, cm>>

\* handleTaskApproval: the catch block
ApprovalCatch(h) ==
  /\ app = "supabase"
  /\ hs[h].pc = "catch"
  /\ \E ok \in BOOLEAN :
       queue' = IF ok
                THEN UpdateTaskQueue(queue, hs[h].snap.id,
                       [status |-> "failed", err |-> "exception",
                        retry |-> OrZero(hs[h].snap.retry) + 1], now).q
                ELSE queue
  /\ hs' = Finish(h)
  /\ UNCHANGED <<app, now, history, created, approved, sweep, ret, lost, io, ev, rl, cm>>

----------------------------------------------------------------------------
(* app-full.js (local deployment): app_mention, approve_tasks, reject_tasks *)

\* app_mention if it stored only the first extracted task
AppMentionFirstTaskOnly(ts, ch, tasks, sugg) ==
  /\ app = "local"
  /\ Len(queue) < MaxEntries
  /\ ts <= Len(queue) + 1
  /\ \E ok \in BOOLEAN, t \in {now, now + 1} :
       /\ now' = IF ok THEN t ELSE now
       /\ queue' = IF ok
                   THEN LocalAdd(queue, [ts |-> ts, ch |-> ch, tasks |-> <<tasks[1]>>,
                                         sugg |-> sugg], t)
                   ELSE queue
       /\ ev' = [ts |-> ts, ch |-> ch, out |-> "tasks", tasks |-> tasks, calls |-> 1,
                 stored |-> ok, reply |-> IF ok THEN "preview" ELSE "error"]
  /\ UNCHANGED <<app, history, created, approved, hs, sweep, ret, lost, io, rl, cm>>

\* app_mention with a successful extraction of at least one task: the entry is
\* stored with the workspace suggestions, which are empty when getWorkspaces failed
AppMention(ts, ch, tasks, sugg) ==
  /\ app = "local"
  /\ Len(queue) < MaxEntries
  /\ ts <= Len(queue) + 1
  /\ \E ok \in BOOLEAN, t \in {now, now + 1} :
       /\ now' = IF ok THEN t ELSE now
       /\ queue' = IF ok
                   THEN LocalAdd(queue, [ts |-> ts, ch |-> ch, tasks |-> tasks,
                                         sugg |-> sugg], t)
                   ELSE queue
       /\ ev' = [ts |-> ts, ch |-> ch, out |-> "tasks", tasks |-> tasks, calls |-> 1,
                 stored |-> ok, reply |-> IF ok THEN "preview" ELSE "error"]
  /\ UNCHANGED <<app, history, created, approved, hs, sweep, ret, lost, io, rl, cm>>

\* app_mention when extraction fails ("error") or returns no task ("empty"):
\* a message to the user, nothing stored. The conversation-history variant
\* returns without any extraction call when it finds no messages or cannot
\* read the history.
AppMentionNoTasks(ts, ch, out, calls) ==
  /\ app = "local"
  /\ ts <= Len(queue) + 1
  /\ ev' = [ts |-> ts, ch |-> ch, out |-> out, tasks |-> <<>>, calls |-> calls,
            stored |-> FALSE, reply |-> out]
  /\ UNCHANGED <<app, now, queue, history, created, approved, hs, sweep, ret, lost, io, rl, cm>>

\* approve_tasks up to the duplicate-processing check: the entry was found pending
ApproveTasksRead(h, ts, ch) ==
  /\ app = "local"
  /\ hs[h].pc = "idle"
  /\ \A g \in 1..(h - 1) : hs[g].pc # "idle"
  /\ LET p == LocalGetTaskByMessage(queue, ts, ch) IN
       /\ p # 0
       /\ queue[p].status = "pending"
       /\ hs' = [hs EXCEPT ![h] = [Idle EXCEPT !.pc = "lmark", !.kind = "approve",
                                                !.pos = p, !.snap = Snap(queue[p])]]
       /\ approved' = [approved EXCEPT ![p] = TRUE]
  /\ UNCHANGED <<app, now, queue, history, created, sweep, ret, lost, io, ev, rl, cm>>

\* approve_tasks: mark as processing, post the "creating" message, leave when the
\* entry has no workspace suggestions; a throw ends the handler in its logging catch
ApproveTasksMark(h) ==
  /\ app = "local"
  /\ hs[h].pc = "lmark"
  /\ \E ok \in BOOLEAN, chat \in BOOLEAN :
       LET u == UpdateTaskQueue(queue, hs[h].snap.id, [status |-> "processing"], now) IN
       /\ queue' = IF ok THEN u.q ELSE queue
       /\ hs' = IF ok /\ u.ok /\ chat /\ Len(hs[h].snap.sugg) > 0
                THEN Goto(h, "lcreate") ELSE Finish(h)
  /\ UNCHANGED <<app, now, history, created, approved, sweep, ret, lost, io, ev, rl, cm>>

\* approve_tasks: the loop of createTask calls, one per task that has a suggestion
ApproveTasksCreate(h) ==
  /\ app = "local"
  /\ hs[h].pc = "lcreate"
  /\ \E res \in [1..Len(hs[h].snap.tasks) -> BOOLEAN] :
       /\ \A i \in 1..Len(res) : res[i] => i <= Len(hs[h].snap.sugg)
       /\ created' = RecordCreates(created, hs[h].pos, hs[h].snap.tasks, res, 1)
       /\ hs' = [hs EXCEPT ![h].pc = "lwrite", ![h].res = res]
  /\ UNCHANGED <<app, now, queue, history, approved, sweep, ret, lost, io, ev, rl, cm>>

\* approve_tasks: success is "at least one create succeeded"; then the status
\* update (addTaskHistory of the file store only logs)
ApproveTasksWrite(h) ==
  /\ app = "local"
  /\ hs[h].pc = "lwrite"
  /\ \E ok \in BOOLEAN :
       LET upd == IF CountTrue(hs[h].res) > 0 THEN [status |-> "completed"]
                  ELSE [status |-> "failed", err |-> "Motion API error"]
       IN queue' = IF ok THEN UpdateTaskQueue(queue, hs[h].snap.id, upd, now).q ELSE queue
  /\ hs' = Finish(h)
  /\ UNCHANGED <<app, now, history, created, approved, sweep, ret, lost, io, ev, rl, cm>>

\* reject_tasks: the lookup found an entry, whatever its status
RejectTasksRead(h, ts, ch) ==
  /\ app = "local"
  /\ hs[h].pc = "idle"
  /\ \A g \in 1..(h - 1) : hs[g].pc # "idle"
  /\ LET p == LocalGetTaskByMessage(queue, ts, ch) IN
       /\ p # 0
       /\ hs' = [hs EXCEPT ![h] = [Idle EXCEPT !.pc = "lreject", !.kind = "reject",
                                                !.pos = p, !.snap = Snap(queue[p])]]
  /\ UNCHANGED <<app, now, queue, history, created, approved, sweep, ret, lost, io, ev, rl, cm>>

\* reject_tasks: the update
RejectTasksWrite(h) ==
  /\ app = "local"
  /\ hs[h].pc = "lreject"
  /\ \E ok \in BOOLEAN :
       queue' = IF ok
                THEN UpdateTaskQueue(queue, hs[h].snap.id,
                       [status |-> "failed", err |-> "Rejected by user"], now).q
                ELSE queue
  /\ hs' = Finish(h)
  /\ UNCHANGED <<app, now, history, created, approved, sweep, ret, lost, io, ev, rl, cm>>

----------------------------------------------------------------------------
(* The enhanced app: edit button and edit replies *)

\* a task slot set to null by a remove command
Removed == [title |-> 0, assignee |-> 0, due |-> 0]

\* The reply texts, by the clauses the four patterns of parseTaskEditCommands
\* find in them: per pattern the task number written in the text (0 and
\* MaxTasks + 1 name no task), Undefined when the pattern does not match. The
\* new assignee and due date are 1.
ReplyTexts ==
  [remove : {Undefined} \cup 1..(MaxTasks + 1),
   assignee : {Undefined, 0, 1, MaxTasks + 1},
   due : {Undefined, 1}, workspace : {Undefined, 1}]

\* parseTaskEditCommands: at most one command per pattern, in the order remove,
\* assignee, due date, workspace; taskIndex is the number in the text minus 1
ParseTaskEditCommands(text) ==
  (IF text.remove # Undefined
   THEN <<[action |-> "remove", taskIndex |-> text.remove - 1, newValue |-> 0]>>
   ELSE <<>>)
  \o (IF text.assignee # Undefined
      THEN <<[action |-> "change_assignee", taskIndex |-> text.assignee - 1, newValue |-> 1]>>
      ELSE <<>>)
  \o (IF text.due # Undefined
      THEN <<[action |-> "change_due_date", taskIndex |-> text.due - 1, newValue |-> 1]>>
      ELSE <<>>)
  \o (IF text.workspace # Undefined
      THEN <<[action |-> "change_workspace", taskIndex |-> text.workspace - 1, newValue |-> 1]>>
      ELSE <<>>)

\* applyEditCommand if it built the changed task from its title and the new
\* value instead of spreading the old task
ApplyEditCommandRebuilt(command, tasks, suggestions) ==
  LET i == command.taskIndex + 1 IN
  IF command.taskIndex < 0 \/ command.taskIndex >= Len(tasks)
  THEN [tasks |-> tasks, suggestions |-> suggestions]
  ELSE IF command.action = "remove"
  THEN [tasks |-> [tasks EXCEPT ![i] = Removed], suggestions |-> suggestions]
  ELSE IF command.action = "change_assignee" /\ tasks[i] # Removed
  THEN [tasks |-> [tasks EXCEPT ![i] = [title |-> tasks[i].title,
                                        assignee |-> command.newValue, due |-> 0]],
        suggestions |-> suggestions]
  ELSE IF command.action = "change_due_date" /\ tasks[i] # Removed
  THEN [tasks |-> [tasks EXCEPT ![i] = [title |-> tasks[i].title, assignee |-> 0,
                                        due |-> command.newValue]],
        suggestions |-> suggestions]
  ELSE IF command.action = "change_workspace" /\ i <= Len(suggestions)
  THEN [tasks |-> tasks,
        suggestions |-> [suggestions EXCEPT ![i].needsUpdate = TRUE]]
  ELSE [tasks |-> tasks, suggestions |-> suggestions]

\* applyEditCommand: nothing for an index outside the tasks; remove sets the
\* slot to null; the changes skip a null slot / a missing suggestion
ApplyEditCommand(command, tasks, suggestions) ==
  LET i == command.taskIndex + 1 IN
  IF command.taskIndex < 0 \/ command.taskIndex >= Len(tasks)
  THEN [tasks |-> tasks, suggestions |-> suggestions]
  ELSE IF command.action = "remove"
  THEN [tasks |-> [tasks EXCEPT ![i] = Removed], suggestions |-> suggestions]
  ELSE IF command.action = "change_assignee" /\ tasks[i] # Removed
  THEN [tasks |-> [tasks EXCEPT ![i].assignee = command.newValue],
        suggestions |-> suggestions]
  ELSE IF command.action = "change_due_date" /\ tasks[i] # Removed
  THEN [tasks |-> [tasks EXCEPT ![i].due = command.newValue],
        suggestions |-> suggestions]
  ELSE IF command.action = "change_workspace" /\ i <= Len(suggestions)
  THEN [tasks |-> tasks,
        suggestions |-> [suggestions EXCEPT ![i].needsUpdate = TRUE]]
  ELSE [tasks |-> tasks, suggestions |-> suggestions]

RECURSIVE ApplyEditCommands(_, _, _)
\* for (const command of editCommands) ...
ApplyEditCommands(commands, tasks, suggestions) ==
  IF commands = <<>> THEN [tasks |-> tasks, suggestions |-> suggestions]
  ELSE LET r == ApplyEditCommand(Head(commands), tasks, suggestions) IN
       ApplyEditCommands(Tail(commands), r.tasks, r.suggestions)

\* editedTasks.filter(task => task !== null)
ValidTasks(editedTasks) ==
  LET keep == SelectSeq2(editedTasks, [i \in 1..Len(editedTasks) |->
                                         editedTasks[i] # Removed], 1)
  IN [k \in 1..Len(keep) |-> editedTasks[keep[k]]]

\* editedSuggestions.filter((_, index) => editedTasks[index] !== null)
ValidSuggestions(editedTasks, editedSuggestions) ==
  LET keep == SelectSeq2(editedSuggestions, [i \in 1..Len(editedSuggestions) |->
                                               i > Len(editedTasks) \/ editedTasks[i] # Removed], 1)
  IN [k \in 1..Len(keep) |-> editedSuggestions[keep[k]]]

\* edit_tasks up to its update: the instructions posted, the entry found by key
EditTasksRead(h, ts, ch) ==
  /\ app = "local"
  /\ hs[h].pc = "idle"
  /\ \A g \in 1..(h - 1) : hs[g].pc # "idle"
  /\ LET p == LocalGetTaskByMessage(queue, ts, ch) IN
       /\ p # 0
       /\ hs' = [hs EXCEPT ![h] = [Idle EXCEPT !.pc = "ledit", !.kind = "edit",
                                                !.pos = p, !.snap = Snap(queue[p])]]
  /\ UNCHANGED <<app, now, queue, history, created, approved, sweep, ret, lost, io, ev, rl, cm>>

\* edit_tasks: the update to editing
EditTasksWrite(h) ==
  /\ app = "local"
  /\ hs[h].pc = "ledit"
  /\ \E ok \in BOOLEAN :
       queue' = IF ok
                THEN UpdateTaskQueue(queue, hs[h].snap.id, [status |-> "editing"], now).q
                ELSE queue
  /\ hs' = Finish(h)
  /\ UNCHANGED <<app, now, history, created, approved, sweep, ret, lost, io, ev, rl, cm>>

\* handleTaskEditReply up to its update: the entry of the thread found in
\* editing, the commands parsed (at least one) and applied in memory
EditReplyRead(h, ts, ch, text) ==
  /\ app = "local"
  /\ hs[h].pc = "idle"
  /\ \A g \in 1..(h - 1) : hs[g].pc # "idle"
  /\ LET p == LocalGetTaskByMessage(queue, ts, ch)
         editCommands == ParseTaskEditCommands(text)
     IN /\ p # 0
        /\ queue[p].status = "editing"
        /\ editCommands # <<>>
        /\ LET r == ApplyEditCommands(editCommands, queue[p].tasks, queue[p].sugg)
               validTasks == ValidTasks(r.tasks)
           IN hs' = [hs EXCEPT ![h] =
                       [Idle EXCEPT !.pc = IF validTasks = <<>> THEN "lremoved" ELSE "lreply",
                                    !.kind = "reply", !.pos = p,
                                    !.snap = [Snap(queue[p]) EXCEPT
                                                !.tasks = validTasks,
                                                !.sugg = ValidSuggestions(r.tasks, r.suggestions)],
                                    !.ws = text.workspace # Undefined,
                                    !.cmds = editCommands]]
  /\ UNCHANGED <<app, now, queue, history, created, approved, sweep, ret, lost, io, ev, rl, cm>>

\* handleTaskEditReply: the update, failed when every task was removed,
\* else the edited tasks and pending
EditReplyWrite(h) ==
  /\ app = "local"
  /\ hs[h].pc \in {"lreply", "lremoved"}
  /\ \E ok \in BOOLEAN :
       /\ queue' = IF ~ok THEN queue
                   ELSE IF hs[h].pc = "lremoved"
                   THEN UpdateTaskQueue(queue, hs[h].snap.id,
                          [status |-> "failed", err |-> "All tasks removed by user"], now).q
                   ELSE UpdateTaskQueue(queue, hs[h].snap.id,
                          [tasks |-> hs[h].snap.tasks, sugg |-> hs[h].snap.sugg,
                           status |-> "pending"], now).q
       /\ hs' = IF ok /\ hs[h].pc = "lreply" /\ hs[h].ws
                THEN Goto(h, "lresuggest") ELSE Finish(h)
  /\ UNCHANGED <<app, now, history, created, approved, sweep, ret, lost, io, ev, rl, cm>>

\* handleTaskEditReply after a change_workspace command: getWorkspaces, new
\* suggestions for the edited tasks, a second update; the assignment to the
\* const validSuggestions then throws and ends the handler
EditReplyResuggest(h) ==
  /\ app = "local"
  /\ hs[h].pc = "lresuggest"
  /\ \E success \in BOOLEAN, ok \in BOOLEAN :
       queue' = IF success /\ ok
                THEN UpdateTaskQueue(queue, hs[h].snap.id,
                       [sugg |-> Suggest(hs[h].snap.tasks)], now).q
                ELSE queue
  /\ hs' = Finish(h)
  /\ UNCHANGED <<app, now, history, created, approved, sweep, ret, lost, io, ev, rl, cm>>

----------------------------------------------------------------------------
(* handlers/batch.js: processRetryQueue *)

\* the timer fires: getPendingTasks(5)
SweepStart ==
  /\ app = "supabase"
  /\ sweep.pc = "idle"
  /\ LET ps == SupabaseGetPendingTasks(queue, SweepLimit) IN
       /\ ps # <<>>
       /\ sweep' = [pc |-> "item", res |-> <<>>,
                    list |-> [k \in 1..Len(ps) |-> [pos |-> ps[k], e |-> Snap(queue[ps[k]])]]]
  /\ UNCHANGED <<app, now, queue, history, created, approved, hs, ret, lost, io, ev, rl, cm>>

\* the rest of the loop after the current item (the 2 s delay is not modelled)
SweepAdvance == 
  IF Len(sweep.list) > 1
  THEN [pc |-> "item", res |-> <<>>, list |-> Tail(sweep.list)]
  ELSE SweepIdle

\* processRetryQueue's loop body if it looked the row up again and skipped a row
\* that is no longer pending
SweepItemRechecked ==
  /\ app = "supabase"
  /\ sweep.pc = "item"
  /\ LET it == Head(sweep.list) IN
       /\ queue[it.pos].status = "pending"
       /\ \E res \in [1..Len(it.e.tasks) -> BOOLEAN] :
            /\ created' = RecordCreates(created, it.pos, it.e.tasks, res, 1)
            /\ sweep' = [sweep EXCEPT !.pc = "write", !.res = res]
  /\ UNCHANGED <<app, now, queue, history, approved, hs, ret, lost, io, ev, rl, cm>>

\* processRetryQueue's loop body if it wrote completed before it called the destination
SweepItemUpdateFirst ==
  /\ app = "supabase"
  /\ sweep.pc = "item"
  /\ LET it == Head(sweep.list) IN
       /\ queue' = UpdateTaskQueue(queue, it.e.id, [status |-> "completed"], now).q
       /\ \E res \in [1..Len(it.e.tasks) -> BOOLEAN] :
            /\ created' = RecordCreates(created, it.pos, it.e.tasks, res, 1)
            /\ sweep' = [sweep EXCEPT !.pc = "write", !.res = res]
  /\ UNCHANGED <<app, now, history, approved, hs, ret, lost, io, ev, rl, cm>>

\* top of the loop body: the retry_count >= 3 branch, else createMultipleTasks
SweepItem ==
  /\ app = "supabase"
  /\ sweep.pc = "item"
  /\ LET it == Head(sweep.list) IN
       IF it.e.retry >= RetryLimit
       THEN /\ \E ok \in BOOLEAN :
                 /\ queue' = IF ok
                             THEN UpdateTaskQueue(queue, it.e.id,
                                    [status |-> "failed", err |-> "Max retries exceeded"], now).q
                             ELSE queue
                 /\ sweep' = IF ok THEN SweepAdvance ELSE SweepIdle
            /\ UNCHANGED created
       ELSE /\ \E res \in [1..Len(it.e.tasks) -> BOOLEAN] :
                 /\ created' = RecordCreates(created, it.pos, it.e.tasks, res, 1)
                 /\ sweep' = [sweep EXCEPT !.pc = "write", !.res = res]
            /\ UNCHANGED queue
  /\ UNCHANGED <<app, now, history, approved, hs, ret, lost, io, ev, rl, cm>>

\* the status update after the retry; a throwing update goes to the inner catch,
\* whose own update may throw to the outer catch, which ends the pass
SweepWrite ==
  /\ app = "supabase"
  /\ sweep.pc = "write"
  /\ LET it == Head(sweep.list)
         retryUpd == [status |-> "pending", retry |-> it.e.retry + 1, err |-> "Motion sync failed"]
         catchUpd == [status |-> "pending", retry |-> it.e.retry + 1, err |-> "exception"]
         first == IF AllSucceeded(sweep.res) THEN [status |-> "completed"] ELSE retryUpd
     IN \E ok \in BOOLEAN, ok2 \in BOOLEAN :
          /\ queue' = IF ok THEN UpdateTaskQueue(queue, it.e.id, first, now).q
                      ELSE IF ok2 THEN UpdateTaskQueue(queue, it.e.id, catchUpd, now).q
                      ELSE queue
          /\ sweep' = IF ok \/ ok2 THEN SweepAdvance ELSE SweepIdle
  /\ UNCHANGED <<app, now, history, created, approved, hs, ret, lost, io, ev, rl, cm>>

----------------------------------------------------------------------------
(* The process stops: every handler in flight and the running sweep are lost,
   the store and the destination keep what was written *)

\* a handler or the sweep whose create calls returned a success for position p
\* and whose status update has not been issued
HoldsSuccess(p) ==
  \/ \E h \in Handlers :
       hs[h].pc \in {"write", "lwrite"} /\ hs[h].pos = p /\ CountTrue(hs[h].res) > 0
  \/ sweep.pc = "write" /\ Head(sweep.list).pos = p /\ CountTrue(sweep.res) > 0

Crash ==
  /\ (\E h \in Handlers : hs[h].pc # "idle") \/ sweep.pc # "idle"
  /\ hs' = [h \in Handlers |-> Idle]
  /\ sweep' = SweepIdle
  /\ lost' = [p \in Positions |->
               IF p <= Len(queue) /\ HoldsSuccess(p) THEN lost[p] \cup {queue[p].status}
               ELSE lost[p]]
  /\ UNCHANGED <<app, now, queue, history, created, approved, ret, io, ev, rl, cm>>

\* nothing is in flight
AllIdle == (\A h \in Handlers : hs[h].pc = "idle") /\ sweep.pc = "idle"

----------------------------------------------------------------------------

InitApp(a) ==
  /\ app = a
  /\ now = 1
  /\ queue = <<>>
  /\ history = {}
  /\ created = [p \in Positions |-> [n \in Titles |-> 0]]
  /\ approved = [p \in Positions |-> FALSE]
  /\ hs = [h \in Handlers |-> Idle]
  /\ sweep = SweepIdle
  /\ ret = NoRet
  /\ lost = [p \in Positions |-> {}]
  /\ io = [c \in Handlers |-> NoIo]
  /\ ev = NoEv
  /\ rl = NoRl
  /\ cm = NoCm

\* the steps of handlers and of the sweep that are already in flight
Steps ==
  \/ \E h \in Handlers : HandleTaskRejection(h)
  \/ \E h \in Handlers : ApprovalMark(h)
  \/ \E h \in Handlers : ApprovalCreate(h)
  \/ \E h \in Handlers : ApprovalWrite(h)
  \/ \E h \in Handlers : ApprovalHistory(h)
  \/ \E h \in Handlers : ApprovalCatch(h)
  \/ SweepItem
  \/ SweepWrite

(* The supabase deployment: events arrive at any time, handlers and the sweep
   interleave at their awaits *)
Init == InitApp("supabase")

Next ==
  \/ /\ Len(queue) < MaxFlow
     /\ \E ts \in TsSet, ch \in ChSet, tasks \in ExtractedBatches : HandleMention(ts, ch, tasks)
  \/ /\ Len(queue) < MaxFlow
     /\ \E ts \in TsSet, ch \in ChSet, tasks \in ExtractedBatches : HandleQuote(ts, ch, tasks)
  \/ \E h \in Handlers, action \in {"approve", "reject"}, ts \in TsSet, ch \in ChSet :
       HandleBatch(h, action, ts, ch)
  \/ SweepStart
  \/ Steps

Spec == Init /\ [][Next]_vars

\* the steps of the local deployment's handlers that are already in flight
LocalSteps ==
  \/ \E h \in Handlers : ApproveTasksMark(h)
  \/ \E h \in Handlers : ApproveTasksCreate(h)
  \/ \E h \in Handlers : ApproveTasksWrite(h)
  \/ \E h \in Handlers : RejectTasksWrite(h)

(* Either deployment with one handler or sweep at a time, and the process
   stopping at any await *)
InitCrash == \E a \in {"supabase", "local"} : InitApp(a)

NextCrash ==
  \/ /\ Len(queue) < MaxFlow
     /\ \E ts \in TsSet, ch \in ChSet, tasks \in ExtractedBatches : HandleMention(ts, ch, tasks)
  \/ /\ Len(queue) < MaxFlow
     /\ \E ts \in TsSet, ch \in ChSet, tasks \in ExtractedBatches : HandleQuote(ts, ch, tasks)
  \/ /\ Len(queue) < MaxFlow
     /\ \E ts \in TsSet, ch \in ChSet, tasks \in ExtractedBatches :
          \E sugg \in {Suggest(tasks), <<>>} : AppMention(ts, ch, tasks, sugg)
  \/ /\ AllIdle
     /\ \E h \in Handlers, action \in {"approve", "reject"}, ts \in TsSet, ch \in ChSet :
          HandleBatch(h, action, ts, ch)
  \/ /\ AllIdle
     /\ \E h \in Handlers, ts \in TsSet, ch \in ChSet : ApproveTasksRead(h, ts, ch)
  \/ /\ AllIdle
     /\ \E h \in Handlers, ts \in TsSet, ch \in ChSet : RejectTasksRead(h, ts, ch)
  \/ AllIdle /\ SweepStart
  \/ Steps
  \/ LocalSteps
  \/ Crash

SpecCrash == InitCrash /\ [][NextCrash]_vars

(* Either deployment with one handler or sweep at a time and no stop of the
   process: every handler and every sweep pass runs to its end *)
NextSerial ==
  \/ /\ Len(queue) < MaxFlow
     /\ \E ts \in TsSet, ch \in ChSet, tasks \in ExtractedBatches : HandleMention(ts, ch, tasks)
  \/ /\ Len(queue) < MaxFlow
     /\ \E ts \in TsSet, ch \in ChSet, tasks \in ExtractedBatches : HandleQuote(ts, ch, tasks)
  \/ /\ Len(queue) < MaxFlow
     /\ \E ts \in TsSet, ch \in ChSet, tasks \in ExtractedBatches :
          \E sugg \in {Suggest(tasks), <<>>} : AppMention(ts, ch, tasks, sugg)
  \/ /\ AllIdle
     /\ \E h \in Handlers, action \in {"approve", "reject"}, ts \in TsSet, ch \in ChSet :
          HandleBatch(h, action, ts, ch)
  \/ /\ AllIdle
     /\ \E h \in Handlers, ts \in TsSet, ch \in ChSet : ApproveTasksRead(h, ts, ch)
  \/ /\ AllIdle
     /\ \E h \in Handlers, ts \in TsSet, ch \in ChSet : RejectTasksRead(h, ts, ch)
  \/ AllIdle /\ SweepStart
  \/ Steps
  \/ LocalSteps

SpecSerial == InitCrash /\ [][NextSerial]_vars

(* Either deployment with the queue at its full bound: messages arrive
   and users reject previews *)
NextIntake ==
  \/ \E ts \in TsSet, ch \in ChSet, tasks \in ExtractedBatches : HandleMention(ts, ch, tasks)
  \/ \E ts \in TsSet, ch \in ChSet, tasks \in ExtractedBatches : HandleQuote(ts, ch, tasks)
  \/ \E ts \in TsSet, ch \in ChSet, tasks \in ExtractedBatches :
       \E sugg \in {Suggest(tasks), <<>>} : AppMention(ts, ch, tasks, sugg)
  \/ \E ts \in TsSet, ch \in ChSet, out \in {"error", "empty"}, calls \in {0, 1} :
       AppMentionNoTasks(ts, ch, out, calls)
  \/ \E h \in Handlers, ts \in TsSet, ch \in ChSet : HandleBatch(h, "reject", ts, ch)
  \/ \E h \in Handlers : HandleTaskRejection(h)
  \/ \E h \in Handlers, ts \in TsSet, ch \in ChSet : RejectTasksRead(h, ts, ch)
  \/ \E h \in Handlers : RejectTasksWrite(h)

SpecIntake == InitCrash /\ [][NextIntake]_vars

----------------------------------------------------------------------------
(* The queue store on its own: calls of its operations, one at a time, with the
   arguments the handlers pass *)

\* the updates the handlers of the running deployment pass to updateTaskQueue;
\* only the enhanced app sets 'editing' and rewrites the tasks
Updates ==
  {[status |-> s] : s \in ValidStatuses}
    \cup {[status |-> "pending", retry |-> r] : r \in {1, RetryLimit}}
    \cup {[status |-> "failed", retry |-> 1]}
    \cup (IF app = "local"
          THEN {[status |-> "editing"],
                [tasks |-> <<Task(2)>>, sugg |-> Suggest(<<Task(2)>>), status |-> "pending"]}
          ELSE {})

\* addToTaskQueue
StoreAdd(ts, ch, tasks) ==
  /\ Len(queue) < MaxEntries
  /\ ts <= Len(queue) + 1
  /\ IF app = "supabase"
     THEN /\ now' = now + 1
          /\ queue' = SupabaseAdd(queue, [ts |-> ts, ch |-> ch, tasks |-> tasks,
                                          status |-> "pending"], now')
     ELSE /\ now' \in {now, now + 1}
          /\ queue' = LocalAdd(queue, [ts |-> ts, ch |-> ch, tasks |-> tasks,
                                       sugg |-> <<>>], now')
  /\ ret' = [op |-> "addToTaskQueue", limit |-> 0,
             arg |-> [ts |-> ts, ch |-> ch, tasks |-> tasks, sugg |-> <<>>],
             val |-> <<Len(queue')>>]
  /\ UNCHANGED <<app, history, created, approved, hs, sweep, lost, io, ev, rl, cm>>

\* updateTaskQueue
StoreUpdate(id, upd) ==
  /\ LET u == UpdateTaskQueue(queue, id, upd, now) IN
       /\ queue' = u.q
       /\ ret' = [op |-> "updateTaskQueue", limit |-> 0,
                  arg |-> [id |-> id, upd |-> upd], val |-> <<u.pos>>]
  /\ UNCHANGED <<app, now, history, created, approved, hs, sweep, lost, io, ev, rl, cm>>

\* getPendingTasks(limit)
StoreGetPendingTasks(limit) ==
  /\ ret' = [op |-> "getPendingTasks", limit |-> limit, arg |-> [limit |-> limit],
             val |-> IF app = "supabase" THEN SupabaseGetPendingTasks(queue, limit)
                     ELSE LocalGetPendingTasks(queue, limit)]
  /\ UNCHANGED <<app, now, queue, history, created, approved, hs, sweep, lost, io, ev, rl, cm>>

\* getTaskByMessage (the file-backed store only)
StoreGetTaskByMessage(ts, ch) ==
  /\ app = "local"
  /\ ret' = [op |-> "getTaskByMessage", limit |-> 0, arg |-> [ts |-> ts, ch |-> ch],
             val |-> <<LocalGetTaskByMessage(queue, ts, ch)>>]
  /\ UNCHANGED <<app, now, queue, history, created, approved, hs, sweep, lost, io, ev, rl, cm>>

InitStore == \E a \in {"supabase", "local"} : InitApp(a)

NextStore ==
  \/ \E ts \in TsSet, ch \in ChSet : StoreAdd(ts, ch, <<Task(1)>>)
  \/ \E id \in 1..(MaxEntries + 1), upd \in Updates : StoreUpdate(id, upd)
  \/ \E limit \in 0..MaxLimit : StoreGetPendingTasks(limit)
  \/ \E ts \in TsSet, ch \in ChSet : StoreGetTaskByMessage(ts, ch)

SpecStore == InitStore /\ [][NextStore]_vars

----------------------------------------------------------------------------
(* Properties *)

\* C1: a destination create call is issued for an entry's tasks only after an
\* approve action has been handled for that entry; the retry sweep never
\* creates the tasks of an entry nobody approved.
C1_CreateOnlyAfterApprove ==
  \A p \in 1..Len(queue) :
    (\/ \E n \in Titles : created[p][n] > 0
     \/ sweep.pc = "write" /\ Head(sweep.list).pos = p
     \/ \E h \in Handlers : hs[h].pc = "write" /\ hs[h].pos = p)
      => approved[p]

\* the status changes the state machine of a queue entry allows
C2_Allowed ==
  { <<"pending", "processing">>, <<"processing", "completed">>,
    <<"processing", "failed">>, <<"processing", "pending">>,
    <<"pending", "failed">>, <<"pending", "editing">>, <<"editing", "pending">> }

\* C2: every change of an entry's status, by any handler or by the sweep, is one
\* of pending->processing, processing->completed, processing->failed,
\* processing->pending, pending->failed, pending->editing, editing->pending.
C2_StatusChanges ==
  [][\A p \in 1..Len(queue) :
       queue'[p].status # queue[p].status
         => <<queue[p].status, queue'[p].status>> \in C2_Allowed]_vars

\* C3: an approve handled for a pending entry writes processing before it issues
\* any create call, and when every create succeeded the handler does not leave
\* the entry failed (it ends completed; it stays processing only when the store
\* refused the writes).
C3_ApproveSuccessCompletes ==
  [][\A h \in Handlers :
       /\ (hs[h].pc = "mark" /\ hs'[h].pc = "create")
            => queue'[hs[h].pos].status = "processing"
       /\ (/\ hs[h].kind = "approve" /\ hs[h].pc # "idle" /\ hs'[h].pc = "idle"
           /\ Len(hs[h].res) > 0 /\ AllSucceeded(hs[h].res))
            => queue'[hs[h].pos].status \in {"completed", "processing"}]_vars

\* C4: when the approve handler records a failed sync, the entry returns to
\* pending with retry_count one higher; it becomes failed only when retry_count
\* would exceed 3.
C4_ApproveFailureRequeues ==
  [][\A h \in Handlers :
       (/\ hs[h].kind = "approve" /\ hs[h].pc = "write" /\ hs'[h].pc # "write"
        /\ ~AllSucceeded(hs[h].res)
        /\ queue'[hs[h].pos] # queue[hs[h].pos])
         => /\ queue'[hs[h].pos].retry = OrZero(queue[hs[h].pos].retry) + 1
            /\ queue'[hs[h].pos].status =
                 IF queue'[hs[h].pos].retry > RetryLimit THEN "failed" ELSE "pending"]_vars

\* C5: an entry whose only attempts were three failed syncs (never approved,
\* nothing of it ever created, retry_count 3), with nothing in flight, is failed.
C5_ThreeFailuresEndFailed ==
  \A p \in 1..Len(queue) :
    (/\ AllIdle
     /\ ~approved[p]
     /\ \A n \in Titles : created[p][n] = 0
     /\ queue[p].retry >= RetryLimit)
      => queue[p].status = "failed"

\* the step records a failed destination sync attempt for position p
C6_RecordsFailedSync(p) ==
  \/ \E h \in Handlers :
       /\ hs[h].pos = p /\ hs[h].pc = "write" /\ hs'[h].pc # "write"
       /\ ~AllSucceeded(hs[h].res)
  \/ /\ sweep.pc = "write" /\ sweep' # sweep
     /\ Head(sweep.list).pos = p
     /\ ~AllSucceeded(sweep.res)

\* C6: retry_count changes only by +1 and only in a step that records a failed
\* destination sync attempt for that entry.
C6_RetryOnlyOnFailedSync ==
  [][\A p \in 1..Len(queue) :
       queue'[p].retry # queue[p].retry
         => /\ queue'[p].retry = OrZero(queue[p].retry) + 1
            /\ C6_RecordsFailedSync(p)]_vars

\* C7: nothing serializes access to an entry: while an approve handler works on
\* an entry (marked processing or not, create calls issued or not), the sweep
\* that listed the same entry is free to issue its create calls too.
C7_NothingSerializes ==
  \A h \in Handlers :
    (/\ hs[h].kind = "approve" /\ hs[h].pc \in {"mark", "create", "write"}
     /\ sweep.pc = "item" /\ Head(sweep.list).pos = hs[h].pos)
      => ENABLED SweepItem

\* C7 witness: an approve handler and the sweep have both issued the create call
\* of the same task of the same entry, and both calls succeeded
C7_DoubleProcessed ==
  \E h \in Handlers :
    /\ hs[h].kind = "approve" /\ hs[h].pc = "write"
    /\ sweep.pc = "write" /\ Head(sweep.list).pos = hs[h].pos
    /\ hs[h].res[1] /\ sweep.res[1]
    /\ created[hs[h].pos][1] = 2

C9_OneEntryPerKey ==
  \A i \in 1..Len(queue), j \in 1..Len(queue) :
    (queue[i].ts = queue[j].ts /\ queue[i].ch = queue[j].ch) => i = j

\* position i is pending with fewer than 3 retries
C10_Eligible(i) == queue[i].status = "pending" /\ OrZero(queue[i].retry) < RetryLimit

\* C10: getPendingTasks(limit) returns exactly the entries that are pending with
\* retry_count < 3, oldest-created first, cut to the first limit of them.
C10_ListPendingExact ==
  ret.op = "getPendingTasks" =>
    LET r == ret.val
        eligible == {i \in 1..Len(queue) : C10_Eligible(i)}
        returned == {r[k] : k \in 1..Len(r)}
    IN /\ returned \subseteq eligible
       /\ \A k \in 1..Len(r), l \in 1..Len(r) :
            k < l => r[k] # r[l] /\ queue[r[k]].created <= queue[r[l]].created
       /\ Len(r) = IF ret.limit < Cardinality(eligible) THEN ret.limit
                   ELSE Cardinality(eligible)
       /\ \A i \in eligible \ returned, k \in returned :
            queue[k].created <= queue[i].created

\* C10 witness: a call with limit 1 on two eligible entries returned the older one
C10_Truncated ==
  /\ ret.op = "getPendingTasks"
  /\ ret.limit = 1
  /\ ret.val = <<1>>
  /\ Len(queue) = 2
  /\ C10_Eligible(1) /\ C10_Eligible(2)
  /\ queue[1].created < queue[2].created

----------------------------------------------------------------------------
(* The enhanced app on the file-backed store: a mention, then the approve,
   reject and edit buttons and thread replies, one handler at a time *)

\* the steps of the edit handlers that are already in flight
EditSteps ==
  \/ \E h \in Handlers : EditTasksWrite(h)
  \/ \E h \in Handlers : EditReplyWrite(h)
  \/ \E h \in Handlers : EditReplyResuggest(h)

InitEnhanced == InitApp("local")

NextEnhanced ==
  \/ /\ Len(queue) < MaxFlow
     /\ \E ts \in TsSet, ch \in ChSet, tasks \in ExtractedBatches :
          \E sugg \in {Suggest(tasks), <<>>} : AppMention(ts, ch, tasks, sugg)
  \/ /\ AllIdle
     /\ \E h \in Handlers, ts \in TsSet, ch \in ChSet : ApproveTasksRead(h, ts, ch)
  \/ /\ AllIdle
     /\ \E h \in Handlers, ts \in TsSet, ch \in ChSet : RejectTasksRead(h, ts, ch)
  \/ /\ AllIdle
     /\ \E h \in Handlers, ts \in TsSet, ch \in ChSet : EditTasksRead(h, ts, ch)
  \/ /\ AllIdle
     /\ \E h \in Handlers, ts \in TsSet, ch \in ChSet, text \in ReplyTexts :
          EditReplyRead(h, ts, ch, text)
  \/ LocalSteps
  \/ EditSteps

SpecEnhanced == InitEnhanced /\ [][NextEnhanced]_vars

(* app-full.js on the file-backed store: button clicks arrive at any time, so
   the approve and reject handlers of one entry interleave at their awaits *)
InitLocal == InitApp("local")

NextLocal ==
  \/ /\ Len(queue) < MaxFlow
     /\ \E ts \in TsSet, ch \in ChSet, tasks \in ExtractedBatches :
          \E sugg \in {Suggest(tasks), <<>>} : AppMention(ts, ch, tasks, sugg)
  \/ \E h \in Handlers, ts \in TsSet, ch \in ChSet : ApproveTasksRead(h, ts, ch)
  \/ \E h \in Handlers, ts \in TsSet, ch \in ChSet : RejectTasksRead(h, ts, ch)
  \/ LocalSteps

SpecLocal == InitLocal /\ [][NextLocal]_vars

----------------------------------------------------------------------------
(* LocalStorageService with its callers interleaved at readFile / writeFile *)

\* addToTaskQueue up to its writeFile: readFile, then the new entry pushed
\* onto the array in memory
FileAddRead(c, ts, ch) ==
  /\ app = "local"
  /\ io[c].pc = "idle"
  /\ \A g \in 1..(c - 1) : io[g].pc # "idle"
  /\ Len(queue) < MaxEntries
  /\ ts <= Len(queue) + 1
  /\ now' \in {now, now + 1}
  /\ now' <= MaxEntries + 1
  /\ io' = [io EXCEPT ![c] = [pc |-> "write",
                               copy |-> LocalAdd(queue, [ts |-> ts, ch |-> ch,
                                                         tasks |-> <<Task(1)>>,
                                                         sugg |-> <<>>], now')]]
  /\ UNCHANGED <<app, queue, history, created, approved, hs, sweep, ret, lost, ev, rl, cm>>

\* updateTaskQueue up to its writeFile: readFile, findIndex, the entry merged in
\* memory; with no such id it throws and writes nothing
FileUpdateRead(c, id, upd) ==
  /\ app = "local"
  /\ io[c].pc = "idle"
  /\ \A g \in 1..(c - 1) : io[g].pc # "idle"
  /\ LET u == LocalUpdate(queue, id, upd, now) IN
       /\ u.ok
       /\ io' = [io EXCEPT ![c] = [pc |-> "write", copy |-> u.q]]
  /\ UNCHANGED <<app, now, queue, history, created, approved, hs, sweep, ret, lost, ev, rl, cm>>

\* writeFile: the whole file replaced by the caller's array
FileWrite(c) ==
  /\ io[c].pc = "write"
  /\ queue' = io[c].copy
  /\ io' = [io EXCEPT ![c] = NoIo]
  /\ UNCHANGED <<app, now, history, created, approved, hs, sweep, ret, lost, ev, rl, cm>>

InitFile == InitApp("local")

NextFile ==
  \/ \E c \in Handlers, ts \in TsSet, ch \in ChSet : FileAddRead(c, ts, ch)
  \/ \E c \in Handlers, id \in 1..(MaxEntries + 1),
          upd \in {[status |-> "processing"], [status |-> "completed"]} :
       FileUpdateRead(c, id, upd)
  \/ \E c \in Handlers : FileWrite(c)

SpecFile == InitFile /\ [][NextFile]_vars

----------------------------------------------------------------------------
(* MotionService: createTask and its error mapping *)

\* what the destination can answer to POST /tasks: the created task, a 2xx
\* reply without a body, no response at all (transport error), or an HTTP
\* error status
Replies ==
  {[kind |-> "ok", status |-> 200, id |-> 1],
   [kind |-> "nobody", status |-> 200, id |-> Undefined],
   [kind |-> "network", status |-> 0, id |-> Undefined]}
    \cup {[kind |-> "http", status |-> st, id |-> Undefined] :
             st \in {400, 401, 403, 404, 429, 500}}

\* the validated task drafts createTask is called with
Drafts ==
  [title : Titles, priority : {"high", "medium", "low"}, due_date : {"", "friday", "soon"}]

\* mapPriority
MapPriority(priority) ==
  IF priority = "high" THEN "HIGH" ELSE IF priority = "low" THEN "LOW" ELSE "MEDIUM"

\* handleError if it kept error.message for every status
HandleErrorRaw(reply) ==
  [success |-> FALSE, error |-> "message", status |-> reply.status,
   motionTaskId |-> Undefined]

\* handleError: success false, error.message, and for a response with status
\* 429 / 401 / 403 / 404 a fixed text instead
HandleError(reply) ==
  [success |-> FALSE,
   error |-> IF reply.kind # "http" THEN "message"
             ELSE IF reply.status = 429 THEN "Rate limit exceeded"
             ELSE IF reply.status = 401 THEN "Invalid API key or authentication failed"
             ELSE IF reply.status = 403 THEN "Insufficient permissions"
             ELSE IF reply.status = 404 THEN "Resource not found"
             ELSE "message",
   status |-> reply.status,
   motionTaskId |-> Undefined]

\* createTask: the payload built, one POST /tasks, its rejection (or the
\* TypeError of reading response.data.id of a reply without a body, thrown
\* inside the try) turned into handleError's value. requests counts the POSTs,
\* threw says whether the call rejected instead of returning: the payload is
\* built outside the try, but mapPriority only throws on a priority that is
\* not a string, which validateTask never lets through.
CreateTask(taskData, reply) ==
  LET motionTask == [name |-> taskData.title,
                     priority |-> MapPriority(taskData.priority),
                     dueDate |-> taskData.due_date = "friday"]
  IN [threw |-> FALSE, requests |-> 1, sent |-> motionTask,
      result |-> IF reply.kind = "ok"
                 THEN [success |-> TRUE, error |-> "", status |-> reply.status,
                       motionTaskId |-> reply.id]
                 ELSE HandleError(reply)]

\* a call of createTask
CallCreateTask(taskData, reply) ==
  /\ ret' = [op |-> "createTask", limit |-> 0,
             arg |-> [taskData |-> taskData, reply |-> reply],
             val |-> <<CreateTask(taskData, reply)>>]
  /\ UNCHANGED <<app, now, queue, history, created, approved, hs, sweep, lost, io, ev, rl, cm>>

\* how one createTask call of a batch ends: created, a failure value returned,
\* or an exception (caught by the batch's own try/catch)
Outcomes == {"ok", "fail", "throw"}

\* the outcome sequences of up to MaxCreates create calls
OutcomeSeqs == UNION {[1..n -> Outcomes] : n \in 0..MaxCreates}

RECURSIVE BatchResults(_, _)
\* the for loop over batches of batchSize tasks starting at task i: per batch
\* the results of Promise.all, in the order of the batch, appended to results
BatchResults(outcomes, i) ==
  IF i > Len(outcomes) THEN <<>>
  ELSE LET last == IF i + BatchSize - 1 < Len(outcomes) THEN i + BatchSize - 1
                   ELSE Len(outcomes)
           batchResults == [k \in 1..(last - i + 1) |->
                              [success |-> outcomes[i + k - 1] = "ok", task |-> i + k - 1]]
       IN batchResults \o BatchResults(outcomes, i + BatchSize)

\* createMultipleTasks if it called the batch a success when any create succeeded
CreateMultipleTasksAnySuccess(outcomes) ==
  LET results == BatchResults(outcomes, 1)
      successful == SelectSeq(results, LAMBDA r : r.success)
      failed == SelectSeq(results, LAMBDA r : ~r.success)
  IN [success |-> Len(successful) > 0, total |-> Len(results),
      successful |-> Len(successful), failed |-> Len(failed), results |-> results]

\* createMultipleTasks: the counts and the verdict over all results
CreateMultipleTasks(outcomes) ==
  LET results == BatchResults(outcomes, 1)
      successful == SelectSeq(results, LAMBDA r : r.success)
      failed == SelectSeq(results, LAMBDA r : ~r.success)
  IN [success |-> Len(failed) = 0, total |-> Len(results),
      successful |-> Len(successful), failed |-> Len(failed), results |-> results]

\* a call of createMultipleTasks
CallCreateMultipleTasks(outcomes) ==
  /\ ret' = [op |-> "createMultipleTasks", limit |-> 0,
             arg |-> [outcomes |-> outcomes],
             val |-> <<CreateMultipleTasks(outcomes)>>]
  /\ UNCHANGED <<app, now, queue, history, created, approved, hs, sweep, lost, io, ev, rl, cm>>

\* Date.getDay(): 0 = Sunday .. 6 = Saturday
Weekdays == 0..6

\* the words a due date string is made of here; "saturday" and "soon" are no
\* keyword and no date, "2025-01-10" is what new Date() can parse
DueWords ==
  {"today", "tomorrow", "monday", "tuesday", "wednesday", "thursday", "friday",
   "saturday", "soon", "2025-01-10"}

\* a due date string: its word, written in upper or lower case
DuePhrases == [word : DueWords, upper : BOOLEAN]

\* String.toLowerCase
ToLowerCase(phrase) == [phrase EXCEPT !.upper = FALSE]

\* String.includes(keyword), keyword in lower case
Includes(phrase, keyword) == phrase.word = keyword /\ ~phrase.upper

\* getNextWeekday if it moved to next week only for a target day already past
GetNextWeekdayStrict(targetDay, currentDay) ==
  LET daysUntilTarget == targetDay - currentDay
  IN [kind |-> "date",
      days |-> IF daysUntilTarget < 0 THEN daysUntilTarget + 7 ELSE daysUntilTarget,
      hours |-> 23, minutes |-> 59]

\* getNextWeekday: the date daysUntilTarget days after today (currentDay is
\* now.getDay()), at 23:59
GetNextWeekday(targetDay, currentDay) ==
  LET daysUntilTarget == targetDay - currentDay
  IN [kind |-> "date",
      days |-> IF daysUntilTarget <= 0 THEN daysUntilTarget + 7 ELSE daysUntilTarget,
      hours |-> 23, minutes |-> 59]

\* parseDueDate: the keywords in the order the code tests them, then the
\* generic date parse, else null
ParseDueDate(dueDateString, currentDay) ==
  LET lowerDue == ToLowerCase(dueDateString)
  IN IF Includes(lowerDue, "today")
       THEN [kind |-> "date", days |-> 0, hours |-> 23, minutes |-> 59]
     ELSE IF Includes(lowerDue, "tomorrow")
       THEN [kind |-> "date", days |-> 1, hours |-> 23, minutes |-> 59]
     ELSE IF Includes(lowerDue, "monday") THEN GetNextWeekday(1, currentDay)
     ELSE IF Includes(lowerDue, "tuesday") THEN GetNextWeekday(2, currentDay)
     ELSE IF Includes(lowerDue, "wednesday") THEN GetNextWeekday(3, currentDay)
     ELSE IF Includes(lowerDue, "thursday") THEN GetNextWeekday(4, currentDay)
     ELSE IF Includes(lowerDue, "friday") THEN GetNextWeekday(5, currentDay)
     ELSE IF dueDateString.word = "2025-01-10"
       THEN [kind |-> "parsed", days |-> 0, hours |-> 0, minutes |-> 0]
     ELSE [kind |-> "null", days |-> 0, hours |-> 0, minutes |-> 0]

\* a call of parseDueDate on a day whose getDay() is currentDay
CallParseDueDate(dueDateString, currentDay) ==
  /\ ret' = [op |-> "parseDueDate", limit |-> 0,
             arg |-> [dueDateString |-> dueDateString, currentDay |-> currentDay],
             val |-> <<ParseDueDate(dueDateString, currentDay)>>]
  /\ UNCHANGED <<app, now, queue, history, created, approved, hs, sweep, lost, io, ev, rl, cm>>

----------------------------------------------------------------------------
(* MotionService: createMultipleTasks step by step *)

\* tasks.slice(i, i + batchSize), as the set of task numbers (1-based)
Slice(n, i) == {k \in 1..n : i < k /\ k <= i + BatchSize}

\* Promise.all if it resolved once every call of the batch was issued
AllIssued(st, slice) == \A k \in slice : st[k] \in {"called", "returned"}

\* Promise.all(batchPromises): every promise of the batch has resolved
AllSettled(st, slice) == \A k \in slice : st[k] = "returned"

\* batch.map(...): the tasks of the slice at offset i get their timers, as
\* batch number b
StartBatch(c, i, b) ==
  [c EXCEPT !.pc = "batch", !.i = i, !.b = b,
            !.st = [k \in CmTasks |-> IF k \in Slice(c.n, i) THEN "timer" ELSE c.st[k]],
            !.batch = [k \in CmTasks |-> IF k \in Slice(c.n, i) THEN b ELSE c.batch[k]],
            !.puts = [k \in CmTasks |-> IF k \in Slice(c.n, i) THEN c.puts[k] + 1
                                        ELSE c.puts[k]]]

\* createMultipleTasks is called with n tasks: the loop is entered for n > 0
CmStart(n) ==
  /\ cm.pc = "idle"
  /\ cm' = IF n = 0 THEN [cm EXCEPT !.pc = "done"]
           ELSE StartBatch([cm EXCEPT !.n = n], 0, 1)
  /\ UNCHANGED <<app, now, queue, history, created, approved, hs, sweep, ret, lost, io, ev, rl>>

\* the timer of task k (index * 100 ms) fires, after those of the tasks before
\* it in the batch: createTask is called
CmCall(k) ==
  /\ cm.pc = "batch"
  /\ cm.st[k] = "timer"
  /\ \A j \in Slice(cm.n, cm.i) : j < k => cm.st[j] # "timer"
  /\ cm' = [cm EXCEPT !.st[k] = "called"]
  /\ UNCHANGED <<app, now, queue, history, created, approved, hs, sweep, ret, lost, io, ev, rl>>

\* the createTask call of task k returns (or throws into the catch around it)
CmReturn(k) ==
  /\ cm.pc = "batch"
  /\ cm.st[k] = "called"
  /\ cm' = [cm EXCEPT !.st[k] = "returned"]
  /\ UNCHANGED <<app, now, queue, history, created, approved, hs, sweep, ret, lost, io, ev, rl>>

\* Promise.all resolves and the results are pushed: the 2 s delay when tasks
\* are left, else the loop ends
CmBatchDone ==
  /\ cm.pc = "batch"
  /\ AllSettled(cm.st, Slice(cm.n, cm.i))
  /\ cm' = [cm EXCEPT !.pc = IF cm.i + BatchSize < cm.n THEN "pause" ELSE "done"]
  /\ UNCHANGED <<app, now, queue, history, created, approved, hs, sweep, ret, lost, io, ev, rl>>

\* the delay is over: i += batchSize and the next batch starts
CmNextBatch ==
  /\ cm.pc = "pause"
  /\ cm' = StartBatch(cm, cm.i + BatchSize, cm.b + 1)
  /\ UNCHANGED <<app, now, queue, history, created, approved, hs, sweep, ret, lost, io, ev, rl>>

InitCm == InitApp("supabase")

NextCm ==
  \/ \E n \in 0..MaxCmTasks : CmStart(n)
  \/ \E k \in CmTasks : CmCall(k)
  \/ \E k \in CmTasks : CmReturn(k)
  \/ CmBatchDone
  \/ CmNextBatch

SpecCm == InitCm /\ [][NextCm]_vars

----------------------------------------------------------------------------
(* MotionService: the request interceptor of setupRateLimiting *)

\* createMultipleTasks starts a batch of n tasks: task k (index k - 1) calls
\* createTask after setTimeout(index * 100)
RateBatch(n) ==
  /\ \A k \in Requests : rl.req[k].pc = "none"
  /\ rl' = [rl EXCEPT !.req = [k \in Requests |->
                                 IF k <= n
                                 THEN [pc |-> "timer", at |-> rl.clock + (k - 1) * Stagger]
                                 ELSE NoRequest]]
  /\ UNCHANGED <<app, now, queue, history, created, approved, hs, sweep, ret, lost, io, ev, cm>>

\* request k enters the interceptor: it reads the clock and lastRequestTime;
\* too early, it starts to wait for the rest of the delay, else it sets
\* lastRequestTime and is sent
RateEnter(k) ==
  /\ rl.req[k].pc = "timer"
  /\ rl.req[k].at <= rl.clock
  /\ LET timeSinceLastRequest == rl.clock - rl.lastRequestTime
     IN IF timeSinceLastRequest < RateLimitDelay
        THEN rl' = [rl EXCEPT !.req[k] =
                      [pc |-> "waiting",
                       at |-> rl.clock + (RateLimitDelay - timeSinceLastRequest)]]
        ELSE rl' = [rl EXCEPT !.req[k] = [pc |-> "sent", at |-> rl.clock],
                              !.lastRequestTime = rl.clock]
  /\ UNCHANGED <<app, now, queue, history, created, approved, hs, sweep, ret, lost, io, ev, cm>>

\* the wait of request k is over: lastRequestTime = Date.now(), and it is sent
RateWake(k) ==
  /\ rl.req[k].pc = "waiting"
  /\ rl.req[k].at <= rl.clock
  /\ rl' = [rl EXCEPT !.req[k] = [pc |-> "sent", at |-> rl.clock],
                      !.lastRequestTime = rl.clock]
  /\ UNCHANGED <<app, now, queue, history, created, approved, hs, sweep, ret, lost, io, ev, cm>>

\* time passes, once every timer that is due has fired
RateTick ==
  /\ rl.clock + Stagger <= MaxClock
  /\ \A k \in Requests :
       rl.req[k].pc \in {"timer", "waiting"} => rl.req[k].at > rl.clock
  /\ rl' = [rl EXCEPT !.clock = rl.clock + Stagger]
  /\ UNCHANGED <<app, now, queue, history, created, approved, hs, sweep, ret, lost, io, ev, cm>>

InitRate == InitApp("supabase")

NextRate ==
  \/ \E n \in Requests : RateBatch(n)
  \/ \E k \in Requests : RateEnter(k)
  \/ \E k \in Requests : RateWake(k)
  \/ RateTick

SpecRate == InitRate /\ [][NextRate]_vars

----------------------------------------------------------------------------
(* WorkspaceMatcherService: findBestMatch *)

\* task texts, each the set of its words (all longer than two letters, none a
\* stop word, so extractKeywords returns them all)
TaskTexts ==
  {{"doctor"}, {"client", "nastygram"}, {"labcorp"}, {"misc"}, {"health"}, {"report"}}

\* workspace and project names, one word each: a name includes a keyword
\* exactly when it is that word
WorkspaceNames == {"personal", "dkdev", "nastygram", "health", "misc"}
ProjectNames == {"nastygram", "misc"}

\* the workspace lists findBestMatch is called with (its callers pass a list
\* with at least one workspace); a workspace is told from another by its place
WorkspaceLists ==
  UNION {[1..n -> WorkspaceNames] : n \in 1..MaxWorkspaces}

\* what getProjects gives: how the call ended and the projects of the workspace
ProjectResults ==
  [kind : {"ok", "fail", "throw"},
   projects : UNION {[1..n -> ProjectNames] : n \in 0..MaxProjects}]

\* isPersonalTask / isWorkTask
IsPersonalTask(taskText) ==
  taskText \cap {"personal", "home", "health", "doctor", "appointment", "family",
                 "vacation", "shopping", "errands"} # {}
IsWorkTask(taskText) ==
  taskText \cap {"client", "project", "meeting", "deadline", "business", "company",
                 "team", "development", "marketing"} # {}

\* calculateWorkspaceScore: 5 per keyword in the name, 10 and 8 for the two
\* context matches, 3 for the personal and the work classification, and 1 for
\* a personal workspace that scored nothing
CalculateWorkspaceScore(taskText, workspaceName) ==
  LET keywordScore == 5 * Cardinality({k \in taskText : k = workspaceName})
      context == (IF "nastygram" \in taskText /\ workspaceName = "nastygram" THEN 10 ELSE 0)
                 + (IF "labcorp" \in taskText /\ workspaceName = "health" THEN 8 ELSE 0)
      class == (IF IsPersonalTask(taskText) /\ workspaceName = "personal" THEN 3 ELSE 0)
               + (IF IsWorkTask(taskText) /\ workspaceName = "dkdev" THEN 3 ELSE 0)
      score == keywordScore + context + class
  IN IF workspaceName = "personal" /\ score = 0 THEN 1 ELSE score

\* one step of an unstable descending sort: m goes in front of its equals
InsertBeforeEquals(m, sorted) ==
  LET before == SelectSeq(sorted, LAMBDA x : x.score > m.score)
      after == SelectSeq(sorted, LAMBDA x : x.score <= m.score)
  IN before \o <<m>> \o after

\* one step of the stable descending sort: m goes behind every match whose
\* score is not smaller
InsertByScore(m, sorted) ==
  LET before == SelectSeq(sorted, LAMBDA x : x.score >= m.score)
      after == SelectSeq(sorted, LAMBDA x : x.score < m.score)
  IN before \o <<m>> \o after

RECURSIVE SortByScore(_, _)
\* Array.sort((a, b) => b.score - a.score): stable, highest score first
SortByScore(matches, n) ==
  IF n = 0 THEN <<>> ELSE InsertByScore(matches[n], SortByScore(matches, n - 1))

\* findBestProject: null (Undefined) without projects or when the best scores 0
FindBestProject(taskText, projects) ==
  IF Len(projects) = 0 THEN Undefined
  ELSE LET projectMatches ==
             SortByScore([i \in 1..Len(projects) |->
                            [id |-> i,
                             score |-> 5 * Cardinality({k \in taskText : k = projects[i]})]],
                         Len(projects))
       IN IF projectMatches[1].score > 0 THEN projectMatches[1].id ELSE Undefined

\* findBestMatch: the first of the sorted matches, the project looked up in it
\* (none when getProjects failed, threw or gave no project), and the label
FindBestMatch(taskText, workspaces, projectsResult) ==
  LET workspaceMatches ==
        SortByScore([i \in 1..Len(workspaces) |->
                       [id |-> i, score |-> CalculateWorkspaceScore(taskText, workspaces[i])]],
                    Len(workspaces))
      bestMatch == workspaceMatches[1]
  IN [workspace |-> bestMatch.id,
      project |-> IF projectsResult.kind = "ok" /\ Len(projectsResult.projects) > 0
                  THEN FindBestProject(taskText, projectsResult.projects)
                  ELSE Undefined,
      confidence |-> IF bestMatch.score > 3 THEN "high"
                     ELSE IF bestMatch.score > 1 THEN "medium" ELSE "low"]

\* a call of findBestMatch
CallFindBestMatch(taskText, workspaces, projectsResult) ==
  /\ ret' = [op |-> "findBestMatch", limit |-> 0,
             arg |-> [taskText |-> taskText, workspaces |-> workspaces,
                      projectsResult |-> projectsResult],
             val |-> <<FindBestMatch(taskText, workspaces, projectsResult)>>]
  /\ UNCHANGED <<app, now, queue, history, created, approved, hs, sweep, lost, io, ev, rl, cm>>

----------------------------------------------------------------------------
(* ClaudeService.validateTask and the validators of supabase-setup.js *)

\* the title of a parsed object: absent, not a string, or a string of chars
\* characters other than white space with pad white space around them
RawTitles ==
  {[kind |-> "missing", pad |-> 0, chars |-> 0],
   [kind |-> "number", pad |-> 0, chars |-> 0]}
    \cup [kind : {"string"}, pad : {0, 2}, chars : {0, 2, 3}]

\* the elements of the parsed array: objects, and what is no object (null, a
\* string); "" stands for an absent confidence / priority
RawTasks ==
  [object : {TRUE}, title : RawTitles, confidence : {"high", "urgent", ""},
   priority : {"low", "urgent"}]
    \cup {[object |-> FALSE, title |-> [kind |-> "missing", pad |-> 0, chars |-> 0],
           confidence |-> "", priority |-> "urgent"]}

\* the parsed arrays
RawLists == UNION {[1..n -> RawTasks] : n \in 0..MaxRaw}

\* !task.title || typeof task.title !== 'string': absent, no string, or ""
NoTitle(task) ==
  task.title.kind # "string" \/ task.title.pad + task.title.chars = 0

\* String.trim
Trim(title) == [title EXCEPT !.pad = 0]

\* task.confidence || 'medium', then 'medium' for a value outside the set
CleanLevel(level) ==
  IF level \in {"high", "medium", "low"} THEN level ELSE "medium"

\* ClaudeService.validateTask: the cleaned task (called for kept tasks only)
ClaudeValidateTask(task) ==
  [title |-> Trim(task.title),
   confidence |-> CleanLevel(task.confidence),
   priority |-> CleanLevel(task.priority)]

\* extractTasks, the validation at its end: objects only, validateTask on
\* each, nulls filtered out
ValidTasksOf(tasks) ==
  LET kept == SelectSeq(tasks, LAMBDA task : task.object /\ ~NoTitle(task))
  IN [i \in 1..Len(kept) |-> ClaudeValidateTask(kept[i])]

\* a call of extractTasks whose reply parsed to tasks
CallExtractTasks(tasks) ==
  /\ ret' = [op |-> "extractTasks", limit |-> 0, arg |-> [tasks |-> tasks],
             val |-> ValidTasksOf(tasks)]
  /\ UNCHANGED <<app, now, queue, history, created, approved, hs, sweep, lost, io, ev, rl, cm>>

\* validateTask of supabase-setup.js: the errors of one task (the assignee and
\* due date checks are left out, the tasks here carry neither)
ValidateTask(task) ==
  LET errors ==
        (IF NoTitle(task) THEN <<"Task title is required">>
         ELSE IF task.title.chars < MinTitle
           THEN <<"Task title must be at least 3 characters">> ELSE <<>>)
        \o (IF task.confidence # "" /\ task.confidence \notin {"high", "medium", "low"}
             THEN <<"Confidence must be high, medium, or low">> ELSE <<>>)
        \o (IF task.priority # "" /\ task.priority \notin {"high", "medium", "low"}
             THEN <<"Priority must be high, medium, or low">> ELSE <<>>)
  IN [valid |-> Len(errors) = 0, errors |-> errors]

\* the two tasks batches are made of: a valid one and one whose title is short
BatchTasks ==
  {[object |-> TRUE, title |-> [kind |-> "string", pad |-> 0, chars |-> 3],
    confidence |-> "high", priority |-> "low"],
   [object |-> TRUE, title |-> [kind |-> "string", pad |-> 2, chars |-> 2],
    confidence |-> "high", priority |-> "low"]}

\* what validateTaskBatch is called with: an array of tasks, or no array
Batches ==
  [array : {TRUE}, tasks : UNION {[1..n -> BatchTasks] : n \in 0..MaxBatch}]
    \cup {[array |-> FALSE, tasks |-> <<>>]}

\* validateTaskBatch if it refused a batch of exactly ten tasks
ValidateTaskBatchBelowTen(batch) ==
  IF ~batch.array THEN [valid |-> FALSE, errors |-> <<"Tasks must be an array">>]
  ELSE IF Len(batch.tasks) = 0
    THEN [valid |-> FALSE, errors |-> <<"At least one task is required">>]
  ELSE IF Len(batch.tasks) >= MaxBatchTasks
    THEN [valid |-> FALSE, errors |-> <<"Maximum 10 tasks allowed per batch">>]
  ELSE LET invalid == SelectSeq([i \in 1..Len(batch.tasks) |-> i],
                                LAMBDA i : ~ValidateTask(batch.tasks[i]).valid)
           allErrors == [k \in 1..Len(invalid) |->
                           [task |-> invalid[k],
                            errors |-> ValidateTask(batch.tasks[invalid[k]]).errors]]
       IN [valid |-> Len(allErrors) = 0, errors |-> allErrors]

\* validateTaskBatch: the three refusals, then one error line per invalid task
ValidateTaskBatch(batch) ==
  IF ~batch.array THEN [valid |-> FALSE, errors |-> <<"Tasks must be an array">>]
  ELSE IF Len(batch.tasks) = 0
    THEN [valid |-> FALSE, errors |-> <<"At least one task is required">>]
  ELSE IF Len(batch.tasks) > MaxBatchTasks
    THEN [valid |-> FALSE, errors |-> <<"Maximum 10 tasks allowed per batch">>]
  ELSE LET invalid == SelectSeq([i \in 1..Len(batch.tasks) |-> i],
                                LAMBDA i : ~ValidateTask(batch.tasks[i]).valid)
           allErrors == [k \in 1..Len(invalid) |->
                           [task |-> invalid[k],
                            errors |-> ValidateTask(batch.tasks[invalid[k]]).errors]]
       IN [valid |-> Len(allErrors) = 0, errors |-> allErrors]

\* a call of validateTaskBatch
CallValidateTaskBatch(batch) ==
  /\ ret' = [op |-> "validateTaskBatch", limit |-> 0, arg |-> [batch |-> batch],
             val |-> <<ValidateTaskBatch(batch)>>]
  /\ UNCHANGED <<app, now, queue, history, created, approved, hs, sweep, lost, io, ev, rl, cm>>

----------------------------------------------------------------------------
(* The functions called on their own: one call from the initial state *)

InitPure == InitApp("local")

NextPure ==
  \/ /\ ret = NoRet
     /\ \E taskData \in Drafts, reply \in Replies : CallCreateTask(taskData, reply)
  \/ /\ ret = NoRet
     /\ \E outcomes \in OutcomeSeqs : CallCreateMultipleTasks(outcomes)
  \/ /\ ret = NoRet
     /\ \E dueDateString \in DuePhrases, currentDay \in Weekdays :
          CallParseDueDate(dueDateString, currentDay)
  \/ /\ ret = NoRet
     /\ \E taskText \in TaskTexts, workspaces \in WorkspaceLists,
             projectsResult \in ProjectResults :
          CallFindBestMatch(taskText, workspaces, projectsResult)
  \/ /\ ret = NoRet
     /\ \E tasks \in RawLists : CallExtractTasks(tasks)
  \/ /\ ret = NoRet
     /\ \E batch \in Batches : CallValidateTaskBatch(batch)

SpecPure == InitPure /\ [][NextPure]_vars

----------------------------------------------------------------------------
(* Claims on the store operations *)

\* the positions whose entry has the key (ts, ch)
C11_Matches(ts, ch) == {i \in 1..Len(queue) : queue[i].ts = ts /\ queue[i].ch = ch}

\* C11: getTaskByMessage(ts, channel) returns the entry with that key, the most
\* recently created one when several match, and nothing when none matches.
C11_FindReturnsNewest ==
  ret.op = "getTaskByMessage" =>
    LET m == C11_Matches(ret.arg.ts, ret.arg.ch) IN
    IF m = {} THEN ret.val = <<0>>
    ELSE /\ ret.val[1] \in m
         /\ \A j \in m : queue[j].created <= queue[ret.val[1]].created

\* the entry e after updateTaskQueue(upd) at time t: the passed fields
\* overwritten, last_attempt stamped, every other field kept
C12_Updated(e, upd, t) ==
  [f \in DOMAIN e |-> IF f \in DOMAIN upd THEN upd[f]
                      ELSE IF f = "last" THEN t ELSE e[f]]

\* C12: updateTaskQueue(id, updates) overwrites exactly the passed fields of the
\* entry with that id and sets last_attempt to the current time, leaving every
\* other field and every other entry unchanged; when no entry has the id it
\* fails and changes nothing.
C12_UpdateExact ==
  [][ret'.op = "updateTaskQueue" =>
       LET id == ret'.arg.id
           upd == ret'.arg.upd
           hit == {i \in 1..Len(queue) : queue[i].id = id}
       IN IF hit = {} THEN queue' = queue /\ ret'.val = <<0>>
          ELSE \E i \in hit :
                 /\ ret'.val = <<i>>
                 /\ queue' = [j \in 1..Len(queue) |->
                                IF j = i THEN C12_Updated(queue[i], upd, now)
                                ELSE queue[j]]]_vars

\* C12 witness: an update of status and retry_count reached the second of two
\* entries and left the first pending
C12_UpdatedOneOfTwo ==
  /\ ret.op = "updateTaskQueue"
  /\ ret.arg.upd = [status |-> "failed", retry |-> 1]
  /\ ret.val = <<2>>
  /\ Len(queue) = 2
  /\ queue[2].status = "failed" /\ queue[2].retry = 1 /\ queue[2].last = now
  /\ queue[1].status = "pending" /\ queue[1].last = Undefined

\* C13: getTaskByMessage with the key just passed to addToTaskQueue returns an
\* entry with the tasks and other fields the caller passed, status pending.
C13_AddThenFind ==
  [][(/\ ret.op = "addToTaskQueue"
      /\ ret'.op = "getTaskByMessage"
      /\ ret'.arg.ts = ret.arg.ts /\ ret'.arg.ch = ret.arg.ch)
       => LET p == ret'.val[1] IN
          /\ p # 0
          /\ queue'[p].ts = ret.arg.ts /\ queue'[p].ch = ret.arg.ch
          /\ queue'[p].tasks = ret.arg.tasks /\ queue'[p].sugg = ret.arg.sugg
          /\ queue'[p].status = "pending"]_vars

\* what an entry list holds, up to ids and timestamps
C20_Content(q) ==
  [i \in 1..Len(q) |-> [ts |-> q[i].ts, ch |-> q[i].ch, tasks |-> q[i].tasks,
                        sugg |-> q[i].sugg, status |-> q[i].status,
                        retry |-> OrZero(q[i].retry), err |-> q[i].err]]

\* the updates either deployment's handlers pass
C20_Updates == {[status |-> s] : s \in Statuses}

\* C20: the file-backed and the Supabase-backed store are interchangeable: on
\* the same entries the same call returns the same result and leaves the same
\* entries, up to ids and timestamps.
C20_Interchangeable ==
  app = "supabase" =>
    /\ \A ts \in TsSet, ch \in ChSet :
         LocalGetTaskByMessage(queue, ts, ch) = SelectPendingSingle(queue, ts, ch)
    /\ \A limit \in 0..MaxLimit :
         LocalGetPendingTasks(queue, limit) = SupabaseGetPendingTasks(queue, limit)
    /\ \A id \in 1..(MaxEntries + 1), upd \in C20_Updates :
         LET l == LocalUpdate(queue, id, upd, now)
             r == SupabaseUpdate(queue, id, upd, now)
         IN l.ok = r.ok /\ C20_Content(l.q) = C20_Content(r.q)

\* C14: no operation removes a queue entry: every entry in the store before a
\* step is in the store after it, with its id and its key.
C14_NeverRemoved ==
  [][/\ Len(queue') >= Len(queue)
     /\ \A i \in 1..Len(queue) : \E j \in 1..Len(queue') :
          /\ queue'[j].id = queue[i].id
          /\ queue'[j].ts = queue[i].ts /\ queue'[j].ch = queue[i].ch]_vars

\* C18: every completed entry has exactly one history record (an approve
\* handler that has written completed and is about to call addTaskHistory is
\* given the time to do so).
C18_CompletedHasHistory ==
  \A p \in 1..Len(queue) :
    (/\ queue[p].status = "completed"
     /\ ~ \E h \in Handlers : hs[h].pc = "history" /\ hs[h].pos = p)
      => Cardinality({r \in history : r.pos = p}) = 1

\* C19: when the queue store fails inside a mention or quote handler, the
\* handler answers with the generic error reply and does not go on as if the
\* entry had been stored.
C19_StoreFailureReported ==
  (ev.out = "tasks" /\ ~ev.stored) => ev.reply = "error"

----------------------------------------------------------------------------
(* Claims on the handlers *)

\* C15: a reject handled for a pending entry sets that entry to failed with the
\* error message 'Rejected by user' in its one update, issues no create call and
\* leaves the entry's tasks and retry_count, and every other entry, unchanged.
C15_RejectFailsEntry ==
  [][\A h \in Handlers :
       (/\ hs[h].pc \in {"reject", "lreject"}
        /\ hs'[h].pc = "idle"
        /\ queue' # queue
        /\ queue[hs[h].pos].status = "pending")
         => /\ queue' = [queue EXCEPT ![hs[h].pos].status = "failed",
                                       ![hs[h].pos].err = "Rejected by user",
                                       ![hs[h].pos].last = now]
            /\ created' = created]_vars

\* C16: the edit button sets a pending entry to editing, and a thread reply
\* with a recognised edit command sets the editing entry back to pending with
\* the edited tasks (a reply with no recognised command changes nothing).
C16_EditRoundTrip ==
  [][\A h \in Handlers :
       /\ (/\ hs[h].pc = "ledit"
           /\ hs'[h].pc = "idle"
           /\ queue' # queue
           /\ queue[hs[h].pos].status = "pending")
            => queue' = [queue EXCEPT ![hs[h].pos].status = "editing",
                                      ![hs[h].pos].last = now]
       /\ (/\ hs[h].pc \in {"lreply", "lremoved"}
           /\ hs'[h].pc # hs[h].pc
           /\ queue' # queue
           /\ queue[hs[h].pos].status = "editing")
            => /\ queue'[hs[h].pos].status = "pending"
               /\ queue'[hs[h].pos].tasks = hs[h].snap.tasks]_vars

\* a step of the app_mention handler of the file-backed deployment
C17_MentionStep == app = "local" /\ (ev' # ev \/ Len(queue') # Len(queue))

\* the step appended one pending entry with the event's key and the extracted tasks
C17_Enqueued ==
  /\ Len(queue') = Len(queue) + 1
  /\ \A i \in 1..Len(queue) : queue'[i] = queue[i]
  /\ LET e == queue'[Len(queue')] IN
       /\ e.ts = ev'.ts /\ e.ch = ev'.ch
       /\ e.tasks = ev'.tasks
       /\ e.status = "pending"

----------------------------------------------------------------------------
(* Claims on suggestions and edits *)

\* C21: every entry of the file-backed deployment holds exactly one suggestion
\* per task, suggestion i being the one generated for task i.
C21_OneSuggestionPerTask ==
  app = "local" =>
    \A p \in 1..Len(queue) :
      /\ Len(queue[p].sugg) = Len(queue[p].tasks)
      /\ \A i \in 1..Len(queue[p].tasks) :
           queue[p].sugg[i].task.title = queue[p].tasks[i].title

\* C22: an entry that can be approved holds suggestions generated for the tasks
\* it holds now: after an edit reply the suggestions are those of the edited
\* batch before the entry is pending again.
C22_SuggestionsRegenerated ==
  app = "local" =>
    \A p \in 1..Len(queue) :
      (queue[p].status = "pending" /\ queue[p].sugg # <<>>)
        => queue[p].sugg = Suggest(queue[p].tasks)

----------------------------------------------------------------------------
(* Claims on the sync client, the matcher and the validators *)

C24_OneResultPerTask ==
  ret.op = "createMultipleTasks" =>
    LET r == ret.val[1]
        outcomes == ret.arg.outcomes
    IN /\ Len(r.results) = Len(outcomes)
       /\ \A i \in 1..Len(outcomes) :
            /\ r.results[i].task = i
            /\ r.results[i].success <=> outcomes[i] = "ok"
       /\ r.total = Len(outcomes)
       /\ r.successful + r.failed = r.total
       /\ r.successful = Cardinality({i \in 1..Len(outcomes) : outcomes[i] = "ok"})
       /\ r.success <=> r.failed = 0

\* C24 witness: eleven tasks, two batches, the last create failed
C24_SecondBatchFailure ==
  /\ ret.op = "createMultipleTasks"
  /\ Len(ret.arg.outcomes) = BatchSize + 1
  /\ ret.val[1].total = BatchSize + 1
  /\ ret.val[1].failed = 1
  /\ ~ret.val[1].results[BatchSize + 1].success
  /\ ~ret.val[1].success

\* the getDay() number of a weekday keyword
C26_DayOf(word) ==
  CASE word = "monday" -> 1 [] word = "tuesday" -> 2 [] word = "wednesday" -> 3
    [] word = "thursday" -> 4 [] word = "friday" -> 5

\* C26: a due date phrase naming Monday..Friday resolves to that weekday, 1 to
\* 7 days after the current day (today's weekday gives 7 days, never today),
\* at 23:59, and it is the first such date after today.
C26_NextWeekday ==
  (/\ ret.op = "parseDueDate"
   /\ ret.arg.dueDateString.word
        \in {"monday", "tuesday", "wednesday", "thursday", "friday"}) =>
    LET r == ret.val[1]
        currentDay == ret.arg.currentDay
        targetDay == C26_DayOf(ret.arg.dueDateString.word)
    IN /\ r.kind = "date"
       /\ r.days \in 1..7
       /\ (currentDay + r.days) % 7 = targetDay
       /\ targetDay = currentDay => r.days = 7
       /\ \A d \in 1..(r.days - 1) : (currentDay + d) % 7 # targetDay
       /\ r.hours = 23 /\ r.minutes = 59

\* C26 witness: "FRIDAY" parsed on a Friday gave the Friday a week ahead
C26_SameWeekday ==
  /\ ret.op = "parseDueDate"
  /\ ret.arg.dueDateString = [word |-> "friday", upper |-> TRUE]
  /\ ret.arg.currentDay = 5
  /\ ret.val[1].days = 7
  /\ ret.val[1].hours = 23

\* the score of workspace i of the call in ret
C27_Score(i) == CalculateWorkspaceScore(ret.arg.taskText, ret.arg.workspaces[i])

\* the score of project i of the call in ret
C27_ProjectScore(i) ==
  5 * Cardinality({k \in ret.arg.taskText : k = ret.arg.projectsResult.projects[i]})

\* C27: findBestMatch returns the workspace with the maximum score, the first
\* in the input list among equals; confidence is high above 3, medium above 1,
\* low otherwise; the project is null when the best project score is 0.
C27_BestMatch ==
  ret.op = "findBestMatch" =>
    LET r == ret.val[1]
        n == Len(ret.arg.workspaces)
        projects == ret.arg.projectsResult.projects
    IN /\ r.workspace \in 1..n
       /\ \A i \in 1..n : C27_Score(i) <= C27_Score(r.workspace)
       /\ \A i \in 1..(r.workspace - 1) : C27_Score(i) < C27_Score(r.workspace)
       /\ r.confidence = (IF C27_Score(r.workspace) > 3 THEN "high"
                          ELSE IF C27_Score(r.workspace) > 1 THEN "medium" ELSE "low")
       /\ (\A i \in 1..Len(projects) : C27_ProjectScore(i) = 0) => r.project = Undefined
       /\ r.project # Undefined =>
            /\ ret.arg.projectsResult.kind = "ok"
            /\ r.project \in 1..Len(projects)
            /\ \A i \in 1..Len(projects) : C27_ProjectScore(i) <= C27_ProjectScore(r.project)

\* C27 witness: two workspaces tie at the top after a lower one, the first of
\* the two was chosen with confidence medium, and no project scored
C27_TieFirstWins ==
  /\ ret.op = "findBestMatch"
  /\ Len(ret.arg.workspaces) = 3
  /\ C27_Score(1) < C27_Score(2)
  /\ C27_Score(2) = C27_Score(3)
  /\ ret.val[1].workspace = 2
  /\ ret.val[1].confidence = "medium"
  /\ Len(ret.arg.projectsResult.projects) > 0
  /\ ret.val[1].project = Undefined

\* C28: every task the extraction returns has a title of at least 3
\* characters and a confidence and priority out of high, medium, low; objects
\* without a string title are dropped and the others keep their order.
C28_DraftsValid ==
  ret.op = "extractTasks" =>
    LET tasks == ret.arg.tasks
        kept == SelectSeq(tasks, LAMBDA task :
                            /\ task.object
                            /\ task.title.kind = "string"
                            /\ task.title.pad + task.title.chars > 0)
    IN /\ \A i \in 1..Len(ret.val) :
            /\ ret.val[i].title.kind = "string"
            /\ ret.val[i].title.pad + ret.val[i].title.chars >= MinTitle
            /\ ret.val[i].confidence \in {"high", "medium", "low"}
            /\ ret.val[i].priority \in {"high", "medium", "low"}
       /\ Len(ret.val) = Len(kept)
       /\ \A i \in 1..Len(kept) : ret.val[i].title.chars = kept[i].title.chars

\* C29: validateTaskBatch accepts every batch of 1 to 10 valid tasks, rejects
\* a batch of length 0, one of more than 10 tasks and a non-array with a
\* non-empty error list, and is valid exactly when its error list is empty.
C29_BatchValidation ==
  ret.op = "validateTaskBatch" =>
    LET r == ret.val[1]
        batch == ret.arg.batch
        n == Len(batch.tasks)
    IN /\ r.valid <=> Len(r.errors) = 0
       /\ (/\ batch.array
           /\ n \in 1..10
           /\ \A i \in 1..n : ValidateTask(batch.tasks[i]).valid) => r.valid
       /\ (~batch.array \/ n = 0 \/ n > 10) => ~r.valid /\ Len(r.errors) > 0
       /\ (batch.array /\ n \in 1..10 /\ ~r.valid) =>
            \E i \in 1..n : ~ValidateTask(batch.tasks[i]).valid

\* C29 witness: a batch of ten valid tasks was accepted
C29_TenAccepted ==
  /\ ret.op = "validateTaskBatch"
  /\ ret.arg.batch.array
  /\ Len(ret.arg.batch.tasks) = 10
  /\ ret.val[1].valid
  /\ ret.val[1].errors = <<>>

\* C25: any two requests sent through the client leave at least
\* rateLimitDelay apart, also when several are in flight at once.
C25_RequestsSpaced ==
  \A k, j \in Requests :
    (k # j /\ rl.req[k].pc = "sent" /\ rl.req[j].pc = "sent") =>
      \/ rl.req[k].at - rl.req[j].at >= RateLimitDelay
      \/ rl.req[j].at - rl.req[k].at >= RateLimitDelay

----------------------------------------------------------------------------
(* Claim on the edit commands *)

\* some command of cmds with this action names task i of n tasks
C30_Names(cmds, action, i, n) ==
  \E c \in 1..Len(cmds) :
    /\ cmds[c].action = action
    /\ cmds[c].taskIndex + 1 = i
    /\ i \in 1..n

\* task i of old after the commands: the named field replaced, the rest kept
C30_Edited(cmds, old, i) ==
  [title |-> old[i].title,
   assignee |-> IF C30_Names(cmds, "change_assignee", i, Len(old)) THEN 1
                ELSE old[i].assignee,
   due |-> IF C30_Names(cmds, "change_due_date", i, Len(old)) THEN 1 ELSE old[i].due]

\* the tasks of old that no remove command names, in order
C30_Kept(cmds, old) ==
  SelectSeq([i \in 1..Len(old) |-> i],
            LAMBDA i : ~C30_Names(cmds, "remove", i, Len(old)))

\* C30: an edit command changes only the field it names of the task it names,
\* on a copy: every other task and field is as stored, a command whose task
\* number is 0 or greater than the number of tasks changes nothing, and the
\* stored entry is untouched by the step that applies the commands.
C30_EditOnlyTargeted ==
  [][\A h \in Handlers :
       (hs[h].pc = "idle" /\ hs'[h].pc \in {"lreply", "lremoved"}) =>
         LET old == queue[hs'[h].pos].tasks
             cmds == hs'[h].cmds
             kept == C30_Kept(cmds, old)
         IN /\ queue' = queue
            /\ Len(hs'[h].snap.tasks) = Len(kept)
            /\ \A k \in 1..Len(kept) :
                 hs'[h].snap.tasks[k] = C30_Edited(cmds, old, kept[k])
            /\ (\A c \in 1..Len(cmds) :
                  cmds[c].taskIndex < 0 \/ cmds[c].taskIndex >= Len(old))
                 => hs'[h].snap.tasks = old]_vars

\* C30 witness: a reply changed the assignee and the due date of task 1 of a
\* stored entry in memory, the entry still holding the tasks as extracted
C30_EditedCopy ==
  \E h \in Handlers :
    /\ hs[h].pc = "lreply"
    /\ Len(hs[h].cmds) = 2
    /\ hs[h].cmds[1].action = "change_assignee" /\ hs[h].cmds[1].taskIndex = 0
    /\ hs[h].cmds[2].action = "change_due_date"
    /\ hs[h].snap.tasks[1].assignee = 1 /\ hs[h].snap.tasks[1].due = 1
    /\ queue[hs[h].pos].tasks[1].assignee = 0
    /\ queue[hs[h].pos].status = "editing"

----------------------------------------------------------------------------
(* Claims on the order of the create calls and on the handlers of one entry *)

\* C31: createMultipleTasks works in consecutive batches of at most 10 tasks:
\* no create call of a later batch is issued before every call of the batches
\* before it has returned, and every task is in exactly one batch.
C31_ConsecutiveBatches ==
  /\ \A k \in CmTasks : cm.puts[k] <= 1
  /\ \A b \in 1..cm.b : Cardinality({k \in CmTasks : cm.batch[k] = b}) \in 1..10
  /\ \A j, k \in 1..cm.n :
       (cm.batch[j] # 0 /\ cm.batch[j] < cm.batch[k] /\ cm.st[k] \in {"called", "returned"})
         => cm.st[j] = "returned"
  /\ \A j, k \in 1..cm.n : (j < k /\ cm.batch[k] # 0) => cm.batch[j] \in 1..cm.batch[k]
  /\ cm.pc = "done" =>
       \A k \in 1..cm.n : cm.puts[k] = 1 /\ cm.batch[k] # 0 /\ cm.st[k] = "returned"

\* C31 witness: of eleven tasks the eleventh was called in a second batch
\* after the ten of the first had returned
C31_SecondBatchCalled ==
  /\ cm.n = 11
  /\ cm.b = 2
  /\ cm.batch[11] = 2
  /\ cm.st[11] = "called"
  /\ \A k \in 1..10 : cm.batch[k] = 1 /\ cm.st[k] = "returned"

\* C32: the tasks of one entry are sent to the destination by at most one
\* approve handling, however many approve clicks arrive, also concurrently.
C32_OneApproveSends ==
  app = "local" =>
    /\ \A p \in 1..Len(queue), n \in Titles : created[p][n] <= 1
    /\ \A h, g \in Handlers :
         (/\ h # g
          /\ hs[h].kind = "approve" /\ hs[g].kind = "approve"
          /\ hs[h].pos = hs[g].pos)
           => ~(hs[h].pc \in {"lcreate", "lwrite"} /\ hs[g].pc \in {"lcreate", "lwrite"})

\* C33: an entry in processing has an approve handling in flight that will
\* still write its status: no handling returns leaving it in processing.
C33_ProcessingHasHandler ==
  app = "local" =>
    \A p \in 1..Len(queue) :
      queue[p].status = "processing" =>
        \E h \in Handlers : hs[h].kind = "approve" /\ hs[h].pos = p /\ hs[h].pc # "idle"

\* C34: completed is absorbing: no step changes the status or the tasks of
\* an entry that is completed.
C34_CompletedAbsorbing ==
  [][\A p \in 1..Len(queue) :
       queue[p].status = "completed" =>
         /\ p <= Len(queue')
         /\ queue'[p].status = "completed"
         /\ queue'[p].tasks = queue[p].tasks]_vars

\* C35: once a reject is stored for an entry, no create call is issued for
\* its tasks and its status stays failed, also with an approve in flight.
C35_RejectedStaysRejected ==
  [][\A p \in 1..Len(queue) :
       (queue[p].status = "failed" /\ queue[p].err = "Rejected by user") =>
         /\ created'[p] = created[p]
         /\ p <= Len(queue')
         /\ queue'[p].status = "failed"]_vars

\* C36: without crashes and without concurrent handlers on an entry, a task
\* whose create call succeeded is never created again, also not by the retry
\* of a batch in which some creates succeeded and others failed.
C36_NoRecreate ==
  \A p \in Positions : \A n \in Titles : created[p][n] < 2

\* C37: the retry count of every entry is between 0 and 3 in every state.
C37_RetryBounded ==
  \A p \in 1..Len(queue) : OrZero(queue[p].retry) \in 0..3

----------------------------------------------------------------------------
(* Claims on the file-backed store under interleaved callers *)

\* entry e without the two fields updateTaskQueue changes here
C38_Rest(e) == Merge(e, [status |-> "", last |-> 0])

\* the write appends one entry to the stored array and changes nothing else
C38_AddsOne ==
  /\ Len(queue') = Len(queue) + 1
  /\ \A i \in 1..Len(queue) : queue'[i] = queue[i]

\* the write changes status and last_attempt of at most one stored entry and
\* nothing else
C38_UpdatesOne ==
  /\ Len(queue') = Len(queue)
  /\ \A i \in 1..Len(queue) : C38_Rest(queue'[i]) = C38_Rest(queue[i])
  /\ Cardinality({i \in 1..Len(queue) : queue'[i] # queue[i]}) <= 1

\* C38: interleaved addToTaskQueue and updateTaskQueue calls on different
\* entries do not interfere: every write leaves the store with everything it
\* held plus the effect of the writer's own call, so nothing is lost.
C38_NoLostWrite ==
  [][\A c \in Handlers :
       (io[c].pc = "write" /\ io'[c].pc = "idle") => (C38_AddsOne \/ C38_UpdatesOne)]_vars

\* C39: every entry of the file-backed store has an id different from the
\* id of every other entry, also when two are enqueued in the same millisecond.
C39_UniqueIds ==
  app = "local" =>
    \A i, j \in 1..Len(queue) : i # j => queue[i].id # queue[j].id

====
